---- MODULE Spec2Model ----
(***************************************************************************)
(* The client-side feed controller of pollit-backend.                      *)
(*                                                                         *)
(* The repository holds the controller in several builds.  Two are         *)
(* modelled here, selected by the variable build:                          *)
(*   "app"    src/public/app.js, lines 515-1092: one card rendered at a     *)
(*            time, one poll request per rendered card;                    *)
(*   "script" src/unnamed/part_000: all cards rendered at once, with the    *)
(*            localStorage cache and the daily refresh check.              *)
(* JavaScript runs each handler to its next await without interruption, so *)
(* an action is one such run: from an event (click, timer, response) to    *)
(* the next await of a network call or the end of the handler.             *)
(***************************************************************************)
EXTENDS Integers, Sequences, FiniteSets, TLC

\* Bounds of the model.
MaxArticles == 3   \* articles the upstream can return in one response
MaxInFlight == 2   \* news requests that may overlap

VARIABLES
    build,            \* which build of the controller runs
    started,          \* DOMContentLoaded has been handled
    articles,         \* let articles = []
    currentIndex,     \* let currentIndex = 0 (0-based, as in the code)
    isTransitioning,  \* let isTransitioning = false
    container,        \* children of #articles-container
    prevDisabled,     \* prevButton.disabled
    nextDisabled,     \* nextButton.disabled
    fetches,          \* news fetches in flight, oldest first
    nav,              \* the navigation (nextArticle / prevArticle) in progress
    timers,           \* build "script": the pending 500 ms timers, in firing order
    dailyTimers,      \* build "script": pending timers of setupDailyCheck
    storage,          \* build "script": localStorage
    answer,           \* what a request to /generate-content came to
    parsed,           \* what generatePollContent returned for it
    request,          \* the relay (src/server.js): the request being handled
    response,         \* the relay: the response to it
    clock,            \* build "script": the instant setupDailyCheck reads
    delay,            \* build "script": the delay of the timeout it sets
    image,            \* an <img> element of a card
    lastOp,           \* history: the event of the last step
    run               \* history: the next calls made since a batch was shown
                      \* (both are read by the properties only)

vars == <<build, started, articles, currentIndex, isTransitioning, container,
          prevDisabled, nextDisabled, fetches, nav, timers, dailyTimers, storage,
          answer, parsed, request, response, clock, delay, image, lastOp, run>>

\* The state of the feed controller in a page.
pageVars == <<build, started, articles, currentIndex, isTransitioning, container,
              prevDisabled, nextDisabled, fetches, nav, timers, dailyTimers, storage>>

\* The state of one call of generatePollContent, and of the relay.
callVars == <<answer, parsed>>
relayVars == <<request, response>>

\* The state of one timeout of setupDailyCheck, and of one image element.
timerVars == <<clock, delay>>
imageVars == <<image>>

\* The state only the build "script" uses.
scriptVars == <<timers, dailyTimers, storage>>

----------------------------------------------------------------------------
\* Data

ArticleIds == 1 .. MaxArticles

\* Strings are sequences of characters.
HttpImage == <<"h", "t", "t", "p", ":", "/", "/", "x">>
OtherImage == <<"x", ".", "j", "p", "g">>
NoString == << >>     \* null, undefined or ""
SomeTitle == <<"T">>

\* String.prototype.startsWith
StartsWith(str, prefix) ==
    Len(str) >= Len(prefix) /\ SubSeq(str, 1, Len(prefix)) = prefix

\* An article as far as the code reads it: who it is, its title, the length
\* of its description and its image URL.
sample(id, title, descriptionLength, urlToImage) ==
    [id |-> id, title |-> title, descriptionLength |-> descriptionLength,
     urlToImage |-> urlToImage]

\* The articles NewsAPI may return under an id: a complete one, and ones
\* lacking an image, an image URL with a scheme, a title or a description of
\* more than 30 characters.
UpstreamArticles(id) ==
    { sample(id, SomeTitle, 31, HttpImage), sample(id, SomeTitle, 31, NoString),
      sample(id, SomeTitle, 31, OtherImage), sample(id, NoString, 31, HttpImage),
      sample(id, SomeTitle, 30, HttpImage) }

\* The ones of them the build "script" is run against.
HeadlineArticles(id) ==
    { sample(id, SomeTitle, 31, HttpImage), sample(id, SomeTitle, 31, NoString) }
        \cup IF id = 1 THEN { sample(id, SomeTitle, 30, HttpImage) } ELSE {}

Min(S) == CHOOSE x \in S : \A y \in S : x <= y

RECURSIVE SortedIds(_)
SortedIds(S) == IF S = {} THEN << >> ELSE <<Min(S)>> \o SortedIds(S \ {Min(S)})

\* The article lists a response can carry: any selection of ids, in order,
\* each with one of the articles Of(id).
Batches(Of(_)) ==
    UNION { { [i \in 1 .. Cardinality(S) |-> pick[SortedIds(S)[i]]] :
              pick \in { f \in [S -> UNION {Of(id) : id \in S}] :
                           \A id \in S : f[id] \in Of(id) } } :
            S \in SUBSET ArticleIds }

\* The filter of GET /api/news in the relay.
serverFilter(batch) ==
    SelectSeq(batch, LAMBDA article :
        LET hasImage == article.urlToImage # NoString
                            /\ StartsWith(article.urlToImage, <<"h", "t", "t", "p">>)
            hasTitle == article.title # NoString /\ Len(article.title) > 0
            hasDescription == article.descriptionLength > 30
        IN  hasImage /\ hasTitle /\ hasDescription)

\* What a request for news can come to: the fetch rejects, the HTTP status
\* is not ok, the body is not { status: "ok", articles }, or it is.
Failures ==
    { [net |-> "reject", status |-> "none", articles |-> << >>],
      [net |-> "http",   status |-> "none", articles |-> << >>],
      [net |-> "ok",     status |-> "error", articles |-> << >>] }

\* The build "app" asks the relay, which filters what NewsAPI returned.
RelayResponses ==
    Failures \cup { [net |-> "ok", status |-> "ok", articles |-> serverFilter(b)] :
                     b \in Batches(UpstreamArticles) }

\* The build "script" asks NewsAPI itself.
NewsResponses ==
    Failures \cup { [net |-> "ok", status |-> "ok", articles |-> b] :
                     b \in Batches(HeadlineArticles) }

\* The poll section before a poll has been written into it.
NoContent == [none |-> TRUE]

\* A text is the sequence of its characters.
WhiteSpace == {" ", "\t", "\r", "\n"}
Digits == {"0", "1", "2", "3", "4", "5", "6", "7", "8", "9"}
UpperCase ==
    <<"A", "B", "C", "D", "E", "F", "G", "H", "I", "J", "K", "L", "M",
      "N", "O", "P", "Q", "R", "S", "T", "U", "V", "W", "X", "Y", "Z">>
LowerCase ==
    <<"a", "b", "c", "d", "e", "f", "g", "h", "i", "j", "k", "l", "m",
      "n", "o", "p", "q", "r", "s", "t", "u", "v", "w", "x", "y", "z">>

\* String.prototype.toLowerCase, on one character.
toLowerCase(c) ==
    IF \E k \in 1 .. Len(UpperCase) : UpperCase[k] = c
    THEN LowerCase[CHOOSE k \in 1 .. Len(UpperCase) : UpperCase[k] = c]
    ELSE c

\* content.split('\n')
RECURSIVE split(_)
split(text) ==
    LET at == {k \in 1 .. Len(text) : text[k] = "\n"} IN
    IF at = {} THEN <<text>>
    ELSE <<SubSeq(text, 1, Min(at) - 1)>> \o split(SubSeq(text, Min(at) + 1, Len(text)))

\* line.trim()
trim(line) ==
    LET inked == {k \in 1 .. Len(line) : line[k] \notin WhiteSpace} IN
    IF inked = {} THEN << >>
    ELSE SubSeq(line, Min(inked), CHOOSE k \in inked : \A j \in inked : j <= k)

\* What a match of \s* at the start of line leaves.
afterSpaces(line) ==
    LET inked == {k \in 1 .. Len(line) : line[k] \notin WhiteSpace} IN
    IF inked = {} THEN << >> ELSE SubSeq(line, Min(inked), Len(line))

\* The alternatives of the prefix pattern, in its order.
Prefixes ==
    << <<"p", "o", "l", "l", " ", "q", "u", "e", "s", "t", "i", "o", "n">>,
       <<"q", "u", "e", "s", "t", "i", "o", "n">>,
       <<"q">>,
       <<"o", "p", "t", "i", "o", "n">>,
       <<"a", "n", "s", "w", "e", "r">>,
       <<"c", "h", "o", "i", "c", "e">>,
       <<"a">>,
       <<"o">> >>

\* line starts with word, whatever the case of its letters (the i flag).
startsWithIgnoreCase(line, word) ==
    /\ Len(line) >= Len(word)
    /\ \A k \in 1 .. Len(word) : toLowerCase(line[k]) = word[k]

\* line.replace(/^(poll question|question|q|option|answer|choice|a|o)[:.]?\s*/i, '')
\* The first alternative that matches is taken, since the rest of the
\* pattern matches whatever follows.
removePrefix(line) ==
    LET matching == {k \in 1 .. Len(Prefixes) : startsWithIgnoreCase(line, Prefixes[k])} IN
    IF matching = {} THEN line
    ELSE LET rest == SubSeq(line, Len(Prefixes[Min(matching)]) + 1, Len(line)) IN
         IF rest # << >> /\ Head(rest) \in {":", "."}
         THEN afterSpaces(Tail(rest)) ELSE afterSpaces(rest)

\* line.replace(/^\d+[.)]\s*/, '')
removeNumbering(line) ==
    LET others == {k \in 1 .. Len(line) : line[k] \notin Digits}
        stop == IF others = {} THEN Len(line) + 1 ELSE Min(others)
    IN  IF stop > 1 /\ stop <= Len(line) /\ line[stop] \in {".", ")"}
        THEN afterSpaces(SubSeq(line, stop + 1, Len(line))) ELSE line

\* line.replace(/^-\s*/, '')
removeDash(line) ==
    IF line # << >> /\ Head(line) = "-" THEN afterSpaces(Tail(line)) ELSE line

\* Array.prototype.map
map(Op(_), lines) == [k \in 1 .. Len(lines) |-> Op(lines[k])]

\* The same with the dash removed before the number.
parsedLinesDashFirst(content) ==
    map(removeNumbering,
        map(removeDash,
            map(removePrefix,
                SelectSeq(map(trim, split(content)), LAMBDA line : Len(line) > 0))))

\* const lines = content.split('\n').map(...).filter(...).map(...).map(...).map(...)
parsedLines(content) ==
    map(removeDash,
        map(removeNumbering,
            map(removePrefix,
                SelectSeq(map(trim, split(content)), LAMBDA line : Len(line) > 0))))

\* The poll returned for want of a better one.
DefaultPoll ==
    [question |-> <<"W", "h", "a", "t", "'", "s", " ", "y", "o", "u", "r",
                    " ", "t", "a", "k", "e", " ", "o", "n", " ", "t", "h",
                    "i", "s", " ", "n", "e", "w", "s", "?">>,
     answers |-> << <<"A", "g", "r", "e", "e">>,
                    <<"N", "e", "u", "t", "r", "a", "l">>,
                    <<"D", "i", "s", "a", "g", "r", "e", "e">> >>]

\* const question = lines[0]; const answers = lines.slice(1); and what is
\* returned of them, had the number of answers not been looked at.
pollOfAnyLength(lines) ==
    LET question == IF lines = << >> THEN << >> ELSE lines[1]
        answers == SubSeq(lines, 2, Len(lines))
    IN  IF question = << >> THEN DefaultPoll
        ELSE [question |-> question, answers |-> answers]

\* const question = lines[0]; const answers = lines.slice(1); and what is
\* returned of them (lines[0] of no lines is undefined, falsy as "" is).
pollOf(lines) ==
    LET question == IF lines = << >> THEN << >> ELSE lines[1]
        answers == SubSeq(lines, 2, Len(lines))
    IN  IF question = << >> \/ Len(answers) # 3 THEN DefaultPoll
        ELSE [question |-> question, answers |-> answers]

\* The texts the relay is taken to answer with.
RawTexts ==
    { \* The empty text.
      <<>>,
      \* A single line.
      <<"I", "s", " ", "i", "t", "?">>,
      \* Four lines, each behind a prefix.
      <<"Q", ":", " ", "I", "s", " ", "i", "t", "?", "\n", "A", ":", " ",
        "Y", "e", "s", "\n", "O", ":", " ", "N", "o", "\n", "3", ")", " ",
        "M", "a", "y", "b", "e">>,
      \* Four lines among blank ones, with a heading, a number, a dash and spaces.
      <<"P", "o", "l", "l", " ", "Q", "u", "e", "s", "t", "i", "o", "n", ":",
        " ", "I", "s", " ", "i", "t", "?", "\n", "\n", "1", ".", " ", "Y",
        "e", "s", "\n", "-", " ", "N", "o", "\n", " ", " ", "M", "a", "y",
        "b", "e", " ", "\r">>,
      \* Five lines.
      <<"I", "s", " ", "i", "t", "?", "\n", "Y", "e", "s", "\n", "N", "o",
        "\n", "M", "a", "y", "b", "e", "\n", "N", "e", "v", "e", "r">>,
      \* Four lines, the first of them a prefix and nothing else.
      <<"Q", ":", "\n", "Y", "e", "s", "\n", "N", "o", "\n", "M", "a", "y",
        "b", "e">>,
      \* Four lines, the last of them a prefix and nothing else.
      <<"I", "s", " ", "i", "t", "?", "\n", "Y", "e", "s", "\n", "N", "o",
        "\n", "A", ".">> }

\* What the request to /generate-content can come to: the fetch rejects,
\* the status is not ok, the body has no choices[0].message, the message has
\* no content, or it has a text.
NoReply == [net |-> "ok", ok |-> TRUE, message |-> TRUE, string |-> TRUE, content |-> << >>]
ContentReplies ==
    { [NoReply EXCEPT !.net = "reject"], [NoReply EXCEPT !.ok = FALSE],
      [NoReply EXCEPT !.message = FALSE], [NoReply EXCEPT !.string = FALSE] }
        \cup { [NoReply EXCEPT !.content = text] : text \in RawTexts }

\* The throw statements of the try block, and the TypeError of
\* undefined.split.
throws(reply) ==
    reply.net = "reject" \/ ~reply.ok \/ ~reply.message \/ ~reply.string

\* generatePollContent without its catch block: nothing is returned when the
\* try block throws.
generatePollContentUncaught(reply) ==
    IF throws(reply) THEN NoContent ELSE pollOf(parsedLines(reply.content))

\* async function generatePollContent(article), given what its request came
\* to: the catch block returns the default poll.
generatePollContent(reply) ==
    IF throws(reply) THEN DefaultPoll ELSE pollOf(parsedLines(reply.content))

\* generatePollContent, tabulated over the replies.
PollContent == [reply \in ContentReplies |-> generatePollContent(reply)]


\* The relay between two requests: no request is being handled, and nothing
\* has been sent.  pc is where the handler waits; url and q are the query
\* parameters; mode and query say what it asked NewsAPI.
\* src is the reference the browser asked with, when it asked for an image.
NoParam == [present |-> FALSE, value |-> << >>]
NoRequest == [route |-> "none", pc |-> "idle", src |-> [path |-> "none", url |-> << >>],
              url |-> NoParam, q |-> NoParam, mode |-> "none", query |-> << >>]
NoResponse == [status |-> 0, body |-> "none", articles |-> << >>]

\* No timeout set, and no image element.
NoDelay == 0 - 1
NoImage ==
    [art |-> 0, alt |-> << >>, src |-> [path |-> "none", url |-> << >>],
     onerror |-> "none", pc |-> "none", swaps |-> 0]

\* selected is the option carrying the class "selected", 0 for none.
NoPoll == [state |-> "loading", for |-> 0, content |-> NoContent, selected |-> 0]

\* A task: what started it, where it waits, the card it created (see Detach),
\* the article it asked a poll for and the index it was asked at.
NoTask == [kind |-> "nav", pc |-> "idle", card |-> 0, art |-> 0, index |-> 0]

\* The container: whether it holds the "Loading News" block, the heading of
\* the error block it holds ("none" without one), whether that block has a
\* retry button, its article cards, and which card is displayed (0: none).
EmptyContainer ==
    [loading |-> FALSE, error |-> "none", retry |-> FALSE, cards |-> << >>, visible |-> 0]

\* localStorage without the two keys (getItem returns null).
Absent == -1
\* getItem('cachedArticles') returning null, where a JSON text is expected.
NoText == [null |-> TRUE]
EmptyStorage == [lastFetchTime |-> Absent, cachedArticles |-> NoText]

\* lastOp when nothing has run yet.
NoOp == "none"

\* run counts the calls of nextArticle made since a fetch left a batch on
\* screen at index 0 with nothing else going on, as long as nothing but those
\* calls and their completions has happened: all calls, and the calls made
\* while isTransitioning was false.  The counts saturate at the batch size.
NoRun == [calls |-> -1, settled |-> -1]

UpTo(n) == IF n < MaxArticles THEN n + 1 ELSE n

runAfter(op, idx) ==
    CASE op = "shown" ->
            IF Len(fetches) = 1 /\ ~isTransitioning /\ timers = << >> /\ idx = 0
            THEN [calls |-> 0, settled |-> 0] ELSE NoRun
      [] op = "next" ->
            IF run = NoRun THEN NoRun
            ELSE [calls |-> UpTo(run.calls),
                  settled |-> IF isTransitioning THEN run.settled ELSE UpTo(run.settled)]
      [] op \in {"fetchpoll", "navpoll", "navtimer"} -> run
      [] OTHER -> NoRun

\* The step being taken is the event op, and leaves the index at idx.
DidAt(op, idx) ==
    /\ lastOp' = op /\ run' = runAfter(op, idx)
    /\ UNCHANGED <<callVars, relayVars, timerVars, imageVars>>

Did(op) == DidAt(op, currentIndex)

----------------------------------------------------------------------------
\* The DOM of #articles-container

\* A pending task holds the element it created in its closure.  The model
\* names that element by where it is: task.card is its position among the
\* container's children, or 0 once it has been removed from the document
\* (an element removed by innerHTML = ... never comes back).
Detach(task) == [task EXCEPT !.card = 0]

\* showLoading(): innerHTML = the "Loading News" markup.
showLoading == [EmptyContainer EXCEPT !.loading = TRUE]

\* innerHTML = an error-message block; retry says it carries a button
\* whose onclick is fetchNews().
errorMessage(heading, retry) ==
    [EmptyContainer EXCEPT !.error = heading, !.retry = retry]

\* hideLoading(): document.querySelector('.loading-container') is the first
\* such element in document order: the "Loading News" block if it is there,
\* else the "Loading Poll" placeholder of the first card that still has one.
hideLoading(c) ==
    IF c.loading THEN [c EXCEPT !.loading = FALSE]
    ELSE LET waiting == {i \in 1 .. Len(c.cards) : c.cards[i].poll.state = "loading"} IN
         IF waiting = {} THEN c
         ELSE [c EXCEPT !.cards[Min(waiting)].poll.state = "removed"]

\* The characters encodeURIComponent escapes, of those that occur here, each
\* with its escape (the UTF-8 code in hexadecimal).
Escapes ==
    { <<":", <<"%", "3", "A">>>>, <<"/", <<"%", "2", "F">>>>, <<"?", <<"%", "3", "F">>>>,
      <<"&", <<"%", "2", "6">>>>, <<"=", <<"%", "3", "D">>>>, <<"+", <<"%", "2", "B">>>>,
      <<" ", <<"%", "2", "0">>>>, <<"%", <<"%", "2", "5">>>> }

\* encodeURIComponent(text)
encodeURIComponent(text) ==
    LET escape(c) == IF \E e \in Escapes : e[1] = c
                     THEN (CHOOSE e \in Escapes : e[1] = c)[2] ELSE <<c>>
        upTo[k \in 0 .. Len(text)] ==
            IF k = 0 THEN << >> ELSE upTo[k - 1] \o escape(text[k])
    IN  upTo[Len(text)]

\* The <img src> of a card, had every URL without a scheme been given the
\* local fallback asset.
imageSrcValidated(article) ==
    IF StartsWith(article.urlToImage, <<"h", "t", "t", "p">>)
    THEN [path |-> "proxy-image", url |-> encodeURIComponent(article.urlToImage)]
    ELSE [path |-> "fallback.svg", url |-> NoString]

\* The <img src> of a card: `${API_BASE_URL}/proxy-image?url=...` with the
\* encoded URL if article.urlToImage is truthy, else the local fallback
\* asset.
imageSrc(article) ==
    IF article.urlToImage # NoString
    THEN [path |-> "proxy-image", url |-> encodeURIComponent(article.urlToImage)]
    ELSE [path |-> "fallback.svg", url |-> NoString]

\* The card displayCurrentArticle builds for an article.
articleCard(article) ==
    [art |-> article.id, image |-> imageSrc(article), poll |-> NoPoll]

\* SetPoll, had it looked the poll section up in the document
\* (document.querySelector) instead of in the element the caller created.
SetPollInDocument(c, e, article, kind) ==
    [c EXCEPT !.cards = [i \in 1 .. Len(c.cards) |->
        [c.cards[i] EXCEPT !.poll = [state |-> "shown", for |-> article, content |-> kind,
                                     selected |-> 0]]]]

\* articleElement.querySelector('.poll-section').innerHTML = the poll: it
\* writes into the element the caller created, wherever that element is now.
SetPoll(c, e, article, kind) ==
    [c EXCEPT !.cards = [i \in 1 .. Len(c.cards) |->
        IF i = e
        THEN [c.cards[i] EXCEPT !.poll = [state |-> "shown", for |-> article, content |-> kind,
                                         selected |-> 0]]
        ELSE c.cards[i]]]

\* updateNavigation(), run when the index is idx and the batch is batch.
updateNavigation(idx, batch) ==
    /\ prevDisabled' = (idx <= 0)
    /\ nextDisabled' = (idx >= Len(batch) - 1)

\* articles.filter(article => article.urlToImage)
Filter(batch) == SelectSeq(batch, LAMBDA article : article.urlToImage # NoString)

Remove(seq, i) == [j \in 1 .. (Len(seq) - 1) |-> IF j < i THEN seq[j] ELSE seq[j + 1]]

----------------------------------------------------------------------------
\* Build "app": src/public/app.js

\* displayCurrentArticle's guard: it returns at once when the index is
\* outside the batch.
CanDisplay(idx, batch) == ~(idx < 0 \/ idx >= Len(batch))

\* displayCurrentArticle up to its await: the container is cleared and holds
\* the one new card.
displayCard(idx, batch) ==
    [EmptyContainer EXCEPT !.cards = <<articleCard(batch[idx + 1])>>, !.visible = 1]

\* The poll request displayCurrentArticle leaves pending.
pollTask(kind, idx, batch) ==
    [kind |-> kind, pc |-> "poll", card |-> 1, art |-> batch[idx + 1].id, index |-> idx]

\* What the body of fetchNews makes of a response: the batch and index it
\* assigns, and whether it goes on to displayArticles or throws.
fetchNewsResult(r) ==
    IF r.net = "ok" /\ r.status = "ok" /\ Len(r.articles) > 0
    THEN IF Len(Filter(r.articles)) = 0
         THEN [articles |-> Filter(r.articles), currentIndex |-> currentIndex,
               display |-> FALSE, error |-> "Error loading articles"]
         ELSE [articles |-> Filter(r.articles), currentIndex |-> 0,
               display |-> TRUE, error |-> "none"]
    ELSE [articles |-> articles, currentIndex |-> currentIndex,
          display |-> FALSE, error |-> "Error loading articles"]

\* The same for getNewsByCategory, which keeps the batch unfiltered.
getNewsByCategoryResult(r) ==
    IF r.net = "ok" /\ r.status = "ok"
    THEN [articles |-> r.articles, currentIndex |-> 0,
          display |-> Len(r.articles) # 0,
          error |-> IF Len(r.articles) = 0 THEN "No articles found" ELSE "none"]
    ELSE [articles |-> articles, currentIndex |-> currentIndex,
          display |-> FALSE, error |-> "Error loading articles"]

\* The same for handleSearch.
handleSearchResult(r) ==
    IF r.net = "ok" /\ r.status = "ok"
    THEN [articles |-> Filter(r.articles), currentIndex |-> 0,
          display |-> Len(Filter(r.articles)) # 0,
          error |-> IF Len(Filter(r.articles)) = 0 THEN "No articles found" ELSE "none"]
    ELSE [articles |-> articles, currentIndex |-> currentIndex,
          display |-> FALSE, error |-> "Error searching articles"]

newsResult(kind, r) ==
    CASE kind = "top" -> fetchNewsResult(r)
      [] kind = "category" -> getNewsByCategoryResult(r)
      [] kind = "search" -> handleSearchResult(r)

\* A handler shows the loading block and issues its GET /news; the block
\* replaces whatever the container held.
startFetch(kind) ==
    /\ Len(fetches) < MaxInFlight
    /\ container' = showLoading
    /\ fetches' = Append([i \in 1 .. Len(fetches) |-> Detach(fetches[i])],
                         [kind |-> kind, pc |-> "news", card |-> 0, art |-> 0, index |-> 0])
    /\ nav' = Detach(nav)

\* fetchFailed, had the catch block called the fetch again.
fetchFailedRetrying(queue, i) ==
    [j \in 1 .. Len(queue) |-> IF j = i THEN queue[j] ELSE Detach(queue[j])]

\* catch (error) { container.innerHTML = the error block } finally
\* { hideLoading() }: the handler of the i-th request ends and leaves no
\* request behind; the error block has replaced the cards the others fill.
fetchFailed(queue, i) ==
    Remove([j \in 1 .. Len(queue) |-> Detach(queue[j])], i)

\* DOMContentLoaded: initializeApp() calls fetchNews(); the listeners are
\* registered.
AppContentLoaded ==
    /\ UNCHANGED scriptVars
    /\ build = "app" /\ ~started
    /\ started' = TRUE
    /\ startFetch("top")
    /\ UNCHANGED <<build, articles, currentIndex, isTransitioning, prevDisabled,
                   nextDisabled>>
    /\ Did("load")

\* Click on the retry button of an error block: fetchNews().
AppRetryClick ==
    /\ UNCHANGED scriptVars
    /\ build = "app" /\ started /\ container.retry
    /\ startFetch("top")
    /\ UNCHANGED <<build, started, articles, currentIndex, isTransitioning,
                   prevDisabled, nextDisabled>>
    /\ Did("retry")

\* Click on a category button: the index is reset at once, then fetchNews()
\* for "all" and getNewsByCategory(category) for the others.
AppCategoryClick(category) ==
    /\ UNCHANGED scriptVars
    /\ build = "app" /\ started
    /\ currentIndex' = 0
    /\ startFetch(IF category = "all" THEN "top" ELSE "category")
    /\ UNCHANGED <<build, started, articles, isTransitioning, prevDisabled,
                   nextDisabled>>
    /\ Did("category")

\* handleSearch(): nothing happens for a blank search term.
AppSearch(term) ==
    /\ UNCHANGED scriptVars
    /\ build = "app" /\ started
    /\ IF term = ""
       THEN UNCHANGED <<container, fetches, nav>>
       ELSE startFetch("search")
    /\ UNCHANGED <<build, started, articles, currentIndex, isTransitioning,
                   prevDisabled, nextDisabled>>
    /\ Did("search")

\* The response of the i-th fetch in flight arrives and its handler runs to
\* the await of the poll request, or to its end through catch and finally.
AppNewsResponse(i, r) ==
    /\ UNCHANGED scriptVars
    /\ build = "app"
    /\ i \in 1 .. Len(fetches) /\ fetches[i].pc = "news"
    /\ LET res == newsResult(fetches[i].kind, r) IN
        /\ articles' = res.articles
        /\ currentIndex' = res.currentIndex
        /\ IF res.display /\ CanDisplay(res.currentIndex, res.articles)
           THEN /\ container' = displayCard(res.currentIndex, res.articles)
                /\ fetches' = [j \in 1 .. Len(fetches) |->
                      IF j = i
                      THEN pollTask(fetches[i].kind, res.currentIndex, res.articles)
                      ELSE Detach(fetches[j])]
                /\ DidAt("shown", res.currentIndex)
           ELSE /\ container' = hideLoading(errorMessage(res.error, TRUE))
                /\ fetches' = fetchFailed(fetches, i)
                /\ Did("failed")
    /\ nav' = Detach(nav)
    /\ UNCHANGED <<build, started, isTransitioning, prevDisabled, nextDisabled>>

\* The poll of a fetch's first card arrives: displayCurrentArticle fills the
\* poll section, displayArticles calls updateNavigation, and the fetch
\* handler ends in hideLoading.
AppFetchPollResponse(i, reply) ==
    /\ UNCHANGED scriptVars
    /\ build = "app"
    /\ i \in 1 .. Len(fetches) /\ fetches[i].pc = "poll"
    /\ container' = hideLoading(SetPoll(container, fetches[i].card, fetches[i].art,
                                         PollContent[reply]))
    /\ fetches' = Remove(fetches, i)
    /\ updateNavigation(currentIndex, articles)
    /\ UNCHANGED <<build, started, articles, currentIndex, isTransitioning, nav>>
    /\ Did("fetchpoll")

\* The body of nextArticle / prevArticle once its guard has passed, moving
\* the index by d: the flag is set, the index moved, and displayCurrentArticle
\* either renders the card and awaits its poll or returns at once.
navigate(d) ==
    /\ isTransitioning' = TRUE
    /\ currentIndex' = currentIndex + d
    /\ IF CanDisplay(currentIndex + d, articles)
       THEN /\ container' = displayCard(currentIndex + d, articles)
            /\ nav' = pollTask("nav", currentIndex + d, articles)
            /\ fetches' = [i \in 1 .. Len(fetches) |-> Detach(fetches[i])]
            /\ UNCHANGED <<prevDisabled, nextDisabled>>
       ELSE /\ nav' = [NoTask EXCEPT !.pc = "timer"]
            /\ updateNavigation(currentIndex + d, articles)
            /\ UNCHANGED <<container, fetches>>

\* nextArticle without the isTransitioning test.
nextArticleNoFlag ==
    IF currentIndex >= Len(articles) - 1
    THEN UNCHANGED <<currentIndex, isTransitioning, container, nav, fetches,
                     prevDisabled, nextDisabled>>
    ELSE navigate(1)

\* nextArticle without the test of the last index.
nextArticleNoBound ==
    IF isTransitioning
    THEN UNCHANGED <<currentIndex, isTransitioning, container, nav, fetches,
                     prevDisabled, nextDisabled>>
    ELSE navigate(1)

\* async function nextArticle()
nextArticle ==
    IF isTransitioning \/ currentIndex >= Len(articles) - 1
    THEN UNCHANGED <<currentIndex, isTransitioning, container, nav, fetches,
                     prevDisabled, nextDisabled>>
    ELSE navigate(1)

\* prevArticle without the test of the first index.
prevArticleNoBound ==
    IF isTransitioning
    THEN UNCHANGED <<currentIndex, isTransitioning, container, nav, fetches,
                     prevDisabled, nextDisabled>>
    ELSE navigate(-1)

\* async function prevArticle()
prevArticle ==
    IF isTransitioning \/ currentIndex <= 0
    THEN UNCHANGED <<currentIndex, isTransitioning, container, nav, fetches,
                     prevDisabled, nextDisabled>>
    ELSE navigate(-1)

\* handleVote, had it only recorded the vote.
handleVoteOnly(option) ==
    UNCHANGED <<currentIndex, isTransitioning, container, nav, fetches,
                prevDisabled, nextDisabled>>

\* function handleVote(option)
handleVote(option) ==
    IF isTransitioning
    THEN UNCHANGED <<currentIndex, isTransitioning, container, nav, fetches,
                     prevDisabled, nextDisabled>>
    ELSE nextArticle

\* The options a rendered poll offers: the three answers.
PollOptions == 1 .. 3

\* Click on the next button (a disabled button dispatches no click).
AppNextClick ==
    /\ UNCHANGED scriptVars
    /\ build = "app" /\ started /\ ~nextDisabled
    /\ nextArticle
    /\ UNCHANGED <<build, started, articles>>
    /\ Did("next")

\* Click on the prev button.
AppPrevClick ==
    /\ UNCHANGED scriptVars
    /\ build = "app" /\ started /\ ~prevDisabled
    /\ prevArticle
    /\ UNCHANGED <<build, started, articles>>
    /\ Did("prev")

\* Click on an option of a poll that is on screen.
AppVoteClick(option) ==
    /\ UNCHANGED scriptVars
    /\ build = "app" /\ started
    /\ \E i \in 1 .. Len(container.cards) : container.cards[i].poll.state = "shown"
    /\ handleVote(option)
    /\ UNCHANGED <<build, started, articles>>
    /\ Did("vote")

\* The poll of the card a navigation rendered arrives: the poll section is
\* filled, updateNavigation runs and the 300 ms timer is set.
AppNavPollResponse(reply) ==
    /\ UNCHANGED scriptVars
    /\ build = "app" /\ nav.pc = "poll"
    /\ container' = SetPoll(container, nav.card, nav.art, PollContent[reply])
    /\ nav' = [NoTask EXCEPT !.pc = "timer"]
    /\ updateNavigation(currentIndex, articles)
    /\ UNCHANGED <<build, started, articles, currentIndex, isTransitioning, fetches>>
    /\ Did("navpoll")

\* The 300 ms timer of a navigation fires.
AppNavTimer ==
    /\ UNCHANGED scriptVars
    /\ build = "app" /\ nav.pc = "timer"
    /\ isTransitioning' = FALSE
    /\ nav' = NoTask
    /\ UNCHANGED <<build, started, articles, currentIndex, container, prevDisabled,
                   nextDisabled, fetches>>
    /\ Did("navtimer")

\* The data-category values of the category buttons clicked here: "all" and
\* two keys of newsCategories (the others behave like them).
Categories == {"all", "politics", "sports"}

\* The search bar's trimmed value: blank or not.
SearchTerms == {"", "climate"}

NextApp ==
    \/ AppContentLoaded
    \/ AppRetryClick
    \/ \E c \in Categories : AppCategoryClick(c)
    \/ \E t \in SearchTerms : AppSearch(t)
    \/ \E i \in 1 .. MaxInFlight, r \in RelayResponses : AppNewsResponse(i, r)
    \/ \E i \in 1 .. MaxInFlight, reply \in ContentReplies : AppFetchPollResponse(i, reply)
    \/ AppNextClick
    \/ AppPrevClick
    \/ \E o \in PollOptions : AppVoteClick(o)
    \/ \E reply \in ContentReplies : AppNavPollResponse(reply)
    \/ AppNavTimer

InitApp ==
    /\ build = "app"
    /\ started = FALSE
    /\ articles = << >>
    /\ currentIndex = 0
    /\ isTransitioning = FALSE
    /\ container = EmptyContainer
    /\ prevDisabled = FALSE
    /\ nextDisabled = FALSE
    /\ fetches = << >>
    /\ nav = NoTask
    /\ timers = << >>
    /\ dailyTimers = 0
    /\ storage = EmptyStorage
    /\ answer = NoReply /\ parsed = NoContent
    /\ request = NoRequest /\ response = NoResponse
    /\ clock = 0 /\ delay = NoDelay /\ image = NoImage
    /\ lastOp = NoOp
    /\ run = NoRun

----------------------------------------------------------------------------
\* Build "script": src/unnamed/part_000

\* Time is in milliseconds since a midnight UTC; a client's local time is
\* UTC plus its zone offset.
DayMs == 24 * 60 * 60 * 1000
HourMs == 60 * 60 * 1000

\* The instants at which the clock is read, and the zone offsets of clients.
Instants == {0, 5 * 60 * 1000, 6 * HourMs, 16 * HourMs, DayMs + 5 * 60 * 1000}
ZoneOffsets == {0 - 5 * HourMs, 0, 9 * HourMs}

\* new Date(t).setHours(0, 0, 0, 0): midnight of t's day in local time.
LocalMidnight(t, offset) == t - ((t + offset) % DayMs)

\* Date.getUTCHours()
UTCHours(t) == (t % DayMs) \div HourMs

\* shouldRefreshArticles without its first test: the date of no time stamp
\* is invalid, and is before no day.
shouldRefreshArticlesByDate(store, now, offset) ==
    IF store.lastFetchTime = Absent THEN FALSE
    ELSE /\ LocalMidnight(store.lastFetchTime, offset) < LocalMidnight(now, offset)
         /\ UTCHours(now) >= 0

\* function shouldRefreshArticles()
shouldRefreshArticles(store, now, offset) ==
    IF store.lastFetchTime = Absent THEN TRUE
    ELSE /\ LocalMidnight(store.lastFetchTime, offset) < LocalMidnight(now, offset)
         /\ UTCHours(now) >= 0

\* A card as displayArticles creates it: an empty div, filled when the
\* content of all cards has arrived.
blankCard(article) ==
    [art |-> article.id, image |-> "none",
     poll |-> [state |-> "blank", for |-> 0, content |-> NoContent, selected |-> 0]]

\* The content generateAIContent returns is parsed from a fresh headline
\* response, data.articles[currentIndex].content, not from the card's article;
\* which headline it was is not kept.
filledPoll == [state |-> "shown", for |-> 0, content |-> [headline |-> TRUE], selected |-> 0]

\* displayArticles up to its await: the loading block and one card per
\* article, the card at currentIndex displayed; nothing for an empty batch.
scriptCards(idx, batch) ==
    IF Len(batch) = 0 THEN EmptyContainer
    ELSE [EmptyContainer EXCEPT
            !.loading = TRUE,
            !.cards = [i \in 1 .. Len(batch) |-> blankCard(batch[i])],
            !.visible = IF idx + 1 \in 1 .. Len(batch) THEN idx + 1 ELSE 0]

\* cards.forEach(card => card.style.display = index === currentIndex ...)
showCard(c, idx) ==
    [c EXCEPT !.visible = IF idx + 1 \in 1 .. Len(c.cards) THEN idx + 1 ELSE 0]

\* What fetchNews and the category handler make of a response: the batch
\* they assign (the index is left alone), or a throw.
scriptNewsResult(r) ==
    IF r.net = "ok" /\ r.status = "ok"
    THEN [articles |-> Filter(r.articles), display |-> TRUE]
    ELSE [articles |-> articles, display |-> FALSE]

scriptStartFetch(kind) ==
    /\ Len(fetches) < MaxInFlight
    /\ container' = showLoading
    /\ fetches' = Append([i \in 1 .. Len(fetches) |-> Detach(fetches[i])],
                         [kind |-> kind, pc |-> "news", card |-> 0, art |-> 0, index |-> 0])

\* function setupDailyCheck(): one more timer is pending.
setupDailyCheck == dailyTimers' = dailyTimers + 1

\* JSON.stringify(articles) and JSON.parse(text): the text of a batch is
\* kept apart from the batch; every text, "[]" included, is truthy.
JSONstringify(batch) == [json |-> batch]
JSONparse(text) == text.json

\* cacheArticles, had it set the batch alone.
cacheArticlesUnstamped(store, batch, now) ==
    [store EXCEPT !.cachedArticles = JSONstringify(batch)]

\* function cacheArticles(): both keys are set, the time being that of the
\* call.
cacheArticles(store, batch, now) ==
    [[store EXCEPT !.cachedArticles = JSONstringify(batch)] EXCEPT !.lastFetchTime = now]

\* function clearCache(): both keys are removed.
clearCache(store) ==
    [[store EXCEPT !.lastFetchTime = Absent] EXCEPT !.cachedArticles = NoText]

\* async function initializeApp(): checkLastFetch() serves the cached batch
\* when the cache is not stale and holds one, and fetchNews() is called
\* otherwise; the daily check is armed when that is over.
initializeApp(now, offset) ==
    IF ~shouldRefreshArticles(storage, now, offset) /\ storage.cachedArticles # NoText
    THEN /\ articles' = JSONparse(storage.cachedArticles)
         /\ container' = scriptCards(currentIndex, JSONparse(storage.cachedArticles))
         /\ fetches' = IF Len(JSONparse(storage.cachedArticles)) = 0
                       THEN [i \in 1 .. Len(fetches) |-> Detach(fetches[i])]
                       ELSE Append([i \in 1 .. Len(fetches) |-> Detach(fetches[i])],
                                   [kind |-> "cached", pc |-> "ai",
                                    card |-> 1, art |-> 0, index |-> 0])
         /\ Len(fetches) < MaxInFlight
         /\ setupDailyCheck
    ELSE /\ scriptStartFetch("init")
         /\ UNCHANGED <<articles, dailyTimers>>

\* DOMContentLoaded: initializeApp().
ScriptContentLoaded(now, offset) ==
    /\ build = "script" /\ ~started
    /\ started' = TRUE
    /\ initializeApp(now, offset)
    /\ UNCHANGED <<build, currentIndex, isTransitioning, prevDisabled, nextDisabled,
                   nav, timers, storage>>
    /\ Did("load")

\* Click on a category button: fetchNews() for "all", getNewsByCategory for
\* the others.
ScriptCategoryClick(category) ==
    /\ build = "script" /\ started
    /\ scriptStartFetch(IF category = "all" THEN "top" ELSE "category")
    /\ UNCHANGED <<build, started, articles, currentIndex, isTransitioning,
                   prevDisabled, nextDisabled, nav, timers, dailyTimers, storage>>
    /\ Did("category")

\* The end of a fetch handler: initializeApp goes on to setupDailyCheck.
scriptFinish(kind) ==
    IF kind = "init" THEN setupDailyCheck ELSE UNCHANGED dailyTimers

\* ScriptNewsResponse, had fetchNews cached whatever it was left with,
\* batch or not.
ScriptNewsResponseCaching(i, r) ==
    /\ build = "script"
    /\ i \in 1 .. Len(fetches) /\ fetches[i].pc = "news"
    /\ LET res == scriptNewsResult(r)
           others == [j \in 1 .. Len(fetches) |-> Detach(fetches[j])] IN
        /\ articles' = res.articles
        /\ storage' = cacheArticles(storage, res.articles, 0)
        /\ IF res.display /\ Len(res.articles) > 0
           THEN /\ container' = scriptCards(currentIndex, res.articles)
                /\ fetches' = [others EXCEPT ![i] = [fetches[i] EXCEPT !.pc = "ai", !.card = 1]]
                /\ UNCHANGED dailyTimers
                /\ Did("shown")
           ELSE /\ container' = IF res.display THEN EmptyContainer
                                ELSE errorMessage("Error loading articles", FALSE)
                /\ fetches' = Remove(others, i)
                /\ scriptFinish(fetches[i].kind)
                /\ Did("failed")
    /\ UNCHANGED <<build, started, currentIndex, isTransitioning, prevDisabled,
                   nextDisabled, nav, timers>>

\* The response of the i-th fetch in flight arrives.
ScriptNewsResponse(i, r) ==
    /\ build = "script"
    /\ i \in 1 .. Len(fetches) /\ fetches[i].pc = "news"
    /\ LET res == scriptNewsResult(r)
           others == [j \in 1 .. Len(fetches) |-> Detach(fetches[j])] IN
        /\ articles' = res.articles
        /\ IF res.display /\ Len(res.articles) > 0
           THEN /\ container' = scriptCards(currentIndex, res.articles)
                /\ fetches' = [others EXCEPT ![i] = [fetches[i] EXCEPT !.pc = "ai", !.card = 1]]
                /\ UNCHANGED dailyTimers
                /\ Did("shown")
           ELSE /\ container' = IF res.display THEN EmptyContainer
                                ELSE errorMessage("Error loading articles", FALSE)
                /\ fetches' = Remove(others, i)
                /\ scriptFinish(fetches[i].kind)
                /\ Did("failed")
    /\ UNCHANGED <<build, started, currentIndex, isTransitioning, prevDisabled,
                   nextDisabled, nav, timers, storage>>

\* The contents of all cards of a displayArticles call have arrived: its
\* cards are filled, wherever they are now, and the handler ends in
\* hideLoading.
ScriptContentResponse(i) ==
    /\ build = "script"
    /\ i \in 1 .. Len(fetches) /\ fetches[i].pc = "ai"
    /\ container' =
          [container EXCEPT
             !.loading = FALSE,
             !.cards = IF fetches[i].card = 1
                       THEN [j \in 1 .. Len(container.cards) |->
                                [container.cards[j] EXCEPT !.poll = filledPoll]]
                       ELSE container.cards]
    /\ fetches' = Remove(fetches, i)
    /\ scriptFinish(fetches[i].kind)
    /\ UNCHANGED <<build, started, articles, currentIndex, isTransitioning,
                   prevDisabled, nextDisabled, nav, timers, storage>>
    /\ Did("fetchpoll")

\* The body of nextArticle / prevArticle in this build, moving the index by
\* d: the flag is released by a 500 ms timer.
scriptNavigate(d) ==
    /\ isTransitioning' = TRUE
    /\ currentIndex' = currentIndex + d
    /\ container' = showCard(container, currentIndex + d)

\* function nextArticle(), called with the timers still pending in queue.
scriptNextArticle(queue) ==
    IF isTransitioning \/ currentIndex >= Len(articles) - 1
    THEN /\ UNCHANGED <<currentIndex, isTransitioning, container>>
         /\ timers' = queue
    ELSE /\ scriptNavigate(1)
         /\ timers' = Append(queue, "nav")

\* function prevArticle()
scriptPrevArticle(queue) ==
    IF isTransitioning \/ currentIndex <= 0
    THEN /\ UNCHANGED <<currentIndex, isTransitioning, container>>
         /\ timers' = queue
    ELSE /\ scriptNavigate(-1)
         /\ timers' = Append(queue, "nav")

ScriptNextClick ==
    /\ build = "script" /\ started /\ ~nextDisabled
    /\ scriptNextArticle(timers)
    /\ UNCHANGED <<build, started, articles, prevDisabled, nextDisabled, fetches,
                   nav, dailyTimers, storage>>
    /\ Did("next")

ScriptPrevClick ==
    /\ build = "script" /\ started /\ ~prevDisabled
    /\ scriptPrevArticle(timers)
    /\ UNCHANGED <<build, started, articles, prevDisabled, nextDisabled, fetches,
                   nav, dailyTimers, storage>>
    /\ Did("prev")

\* The 500 ms timers the model lets be pending at once.
MaxTimers == 2

\* options.forEach(opt => opt.classList.remove('selected'));
\* option.classList.add('selected')
selectOption(c, option) ==
    [c EXCEPT !.cards[c.visible].poll.selected = option]

\* Click on a debate option of the displayed card: the option is marked and
\* nextArticle() is called 500 ms later.
ScriptVoteClick(option) ==
    /\ build = "script" /\ started
    /\ container.visible # 0
    /\ container.cards[container.visible].poll.state = "shown"
    /\ Len(timers) < MaxTimers
    /\ container' = selectOption(container, option)
    /\ timers' = Append(timers, "vote")
    /\ UNCHANGED <<build, started, articles, currentIndex, isTransitioning,
                   prevDisabled, nextDisabled, fetches, nav, dailyTimers, storage>>
    /\ Did("vote")

\* The earliest 500 ms timer fires: the end of a transition, or the
\* nextArticle() of a vote.
ScriptTimer ==
    /\ build = "script" /\ Len(timers) > 0
    /\ IF Head(timers) = "nav"
       THEN /\ isTransitioning' = FALSE
            /\ timers' = Tail(timers)
            /\ UNCHANGED <<currentIndex, container>>
            /\ Did("navtimer")
       ELSE /\ scriptNextArticle(Tail(timers))
            /\ Did("votetimer")
    /\ UNCHANGED <<build, started, articles, prevDisabled, nextDisabled, fetches,
                   nav, dailyTimers, storage>>

\* ScriptDailyCheck, had the callback not called setupDailyCheck() again.
ScriptDailyCheckOnce(now, offset) ==
    /\ build = "script" /\ dailyTimers > 0
    /\ IF shouldRefreshArticles(storage, now, offset)
       THEN scriptStartFetch("top")
       ELSE UNCHANGED <<container, fetches>>
    /\ dailyTimers' = dailyTimers - 1
    /\ UNCHANGED <<build, started, articles, currentIndex, isTransitioning,
                   prevDisabled, nextDisabled, nav, timers, storage>>
    /\ Did("dailycheck")

\* ScriptDailyCheck, had the callback fetched without asking
\* shouldRefreshArticles().
ScriptDailyCheckAlways(now, offset) ==
    /\ build = "script" /\ dailyTimers > 0
    /\ scriptStartFetch("top")
    /\ dailyTimers' = (dailyTimers - 1) + 1
    /\ UNCHANGED <<build, started, articles, currentIndex, isTransitioning,
                   prevDisabled, nextDisabled, nav, timers, storage>>
    /\ Did("dailycheck")

\* A timer of setupDailyCheck fires: fetchNews() if the cache is stale, and
\* the next check is scheduled.
ScriptDailyCheck(now, offset) ==
    /\ build = "script" /\ dailyTimers > 0
    /\ IF shouldRefreshArticles(storage, now, offset)
       THEN scriptStartFetch("top")
       ELSE UNCHANGED <<container, fetches>>
    /\ dailyTimers' = (dailyTimers - 1) + 1
    /\ UNCHANGED <<build, started, articles, currentIndex, isTransitioning,
                   prevDisabled, nextDisabled, nav, timers, storage>>
    /\ Did("dailycheck")

NextScript ==
    \/ \E t \in Instants, z \in ZoneOffsets : ScriptContentLoaded(t, z)
    \/ \E c \in Categories : ScriptCategoryClick(c)
    \/ \E i \in 1 .. MaxInFlight, r \in NewsResponses : ScriptNewsResponse(i, r)
    \/ \E i \in 1 .. MaxInFlight : ScriptContentResponse(i)
    \/ ScriptNextClick
    \/ ScriptPrevClick
    \/ \E o \in PollOptions : ScriptVoteClick(o)
    \/ ScriptTimer
    \/ \E t \in Instants, z \in ZoneOffsets : ScriptDailyCheck(t, z)

InitScript ==
    /\ build = "script"
    /\ started = FALSE
    /\ articles = << >>
    /\ currentIndex = 0
    /\ isTransitioning = FALSE
    /\ container = EmptyContainer
    /\ prevDisabled = FALSE
    /\ nextDisabled = FALSE
    /\ fetches = << >>
    /\ nav = NoTask
    /\ timers = << >>
    /\ dailyTimers = 0
    /\ storage = EmptyStorage
    /\ answer = NoReply /\ parsed = NoContent
    /\ request = NoRequest /\ response = NoResponse
    /\ clock = 0 /\ delay = NoDelay /\ image = NoImage
    /\ lastOp = NoOp
    /\ run = NoRun

Init == InitApp \/ InitScript

Next == NextApp \/ NextScript

Spec == Init /\ [][Next]_vars

\* The page of the build "script" where timers fire and requests come back:
\* a pending daily check fires when it can, and a response that is awaited
\* arrives.
DailyCheckFires == \E t \in Instants, z \in ZoneOffsets : ScriptDailyCheck(t, z)

\* The steps of that page that start, end or await a request or a timer of
\* the scheduler: all but the clicks that move between the cards of a batch.
NextIdle ==
    \/ \E t \in Instants, z \in ZoneOffsets : ScriptContentLoaded(t, z)
    \/ \E c \in Categories : ScriptCategoryClick(c)
    \/ \E i \in 1 .. MaxInFlight, r \in NewsResponses : ScriptNewsResponse(i, r)
    \/ \E i \in 1 .. MaxInFlight : ScriptContentResponse(i)
    \/ \E t \in Instants, z \in ZoneOffsets : ScriptDailyCheck(t, z)

FairSpec ==
    /\ InitScript /\ [][NextIdle]_vars
    /\ SF_vars(DailyCheckFires)
    /\ WF_vars(\E i \in 1 .. MaxInFlight, r \in NewsResponses : ScriptNewsResponse(i, r))
    /\ WF_vars(\E i \in 1 .. MaxInFlight : ScriptContentResponse(i))

----------------------------------------------------------------------------
\* Build "script" with its global functions called from outside

\* cacheArticles, clearCache and initializeApp are globals of the page that
\* no line of the script calls (initializeApp: but once, on DOMContentLoaded).
\* SpecCalls is the start-up and fetch path of the build "script" with these
\* three called at any time, and with the page reloaded at any time:
\* localStorage outlives a reload, the variables and timers of the page do not.

\* The daily checks the model lets be pending at once.
MaxChecks == 2

\* cacheArticles() is called.
ScriptCacheArticles(now) ==
    /\ build = "script" /\ started
    /\ storage' = cacheArticles(storage, articles, now)
    /\ UNCHANGED <<build, started, articles, currentIndex, isTransitioning, container,
                   prevDisabled, nextDisabled, fetches, nav, timers, dailyTimers>>
    /\ Did("cache")

\* clearCache() is called.
ScriptClearCache ==
    /\ build = "script" /\ started
    /\ storage' = clearCache(storage)
    /\ UNCHANGED <<build, started, articles, currentIndex, isTransitioning, container,
                   prevDisabled, nextDisabled, fetches, nav, timers, dailyTimers>>
    /\ Did("clear")

\* initializeApp() is called once more.
ScriptInitializeApp(now, offset) ==
    /\ build = "script" /\ started
    /\ dailyTimers + Cardinality({i \in 1 .. Len(fetches) : fetches[i].kind = "init"})
          < MaxChecks
    /\ initializeApp(now, offset)
    /\ UNCHANGED <<build, started, currentIndex, isTransitioning, prevDisabled,
                   nextDisabled, nav, timers, storage>>
    /\ Did("initialize")

\* The page is reloaded: the script starts over, localStorage is kept.
ScriptReload ==
    /\ build = "script" /\ started
    /\ started' = FALSE
    /\ articles' = << >>
    /\ currentIndex' = 0
    /\ isTransitioning' = FALSE
    /\ container' = EmptyContainer
    /\ prevDisabled' = FALSE
    /\ nextDisabled' = FALSE
    /\ fetches' = << >>
    /\ nav' = NoTask
    /\ timers' = << >>
    /\ dailyTimers' = 0
    /\ UNCHANGED <<build, storage>>
    /\ Did("reload")

NextCalls ==
    \/ \E t \in Instants, z \in ZoneOffsets : ScriptContentLoaded(t, z)
    \/ \E t \in Instants, z \in ZoneOffsets : ScriptInitializeApp(t, z)
    \/ \E i \in 1 .. MaxInFlight, r \in NewsResponses : ScriptNewsResponse(i, r)
    \/ \E i \in 1 .. MaxInFlight : ScriptContentResponse(i)
    \/ \E t \in Instants, z \in ZoneOffsets : ScriptDailyCheck(t, z)
    \/ \E t \in Instants : ScriptCacheArticles(t)
    \/ ScriptClearCache
    \/ ScriptReload

SpecCalls == InitScript /\ [][NextCalls]_vars

\* What the page may find in localStorage when it is loaded: either key may
\* be there or not, whoever wrote or removed it; the batch is empty or full.
StoredBatch == [i \in 1 .. MaxArticles |-> sample(i, SomeTitle, 31, HttpImage)]
Stores ==
    [lastFetchTime : {Absent} \cup Instants,
     cachedArticles : {NoText, JSONstringify(<< >>), JSONstringify(StoredBatch)}]

InitStored ==
    /\ build = "script"
    /\ started = FALSE
    /\ articles = << >>
    /\ currentIndex = 0
    /\ isTransitioning = FALSE
    /\ container = EmptyContainer
    /\ prevDisabled = FALSE
    /\ nextDisabled = FALSE
    /\ fetches = << >>
    /\ nav = NoTask
    /\ timers = << >>
    /\ dailyTimers = 0
    /\ storage \in Stores
    /\ answer = NoReply /\ parsed = NoContent
    /\ request = NoRequest /\ response = NoResponse
    /\ clock = 0 /\ delay = NoDelay /\ image = NoImage
    /\ lastOp = NoOp
    /\ run = NoRun

SpecStored == InitStored /\ [][NextIdle]_vars

----------------------------------------------------------------------------
\* The timeout of setupDailyCheck (src/unnamed/part_000), with its delay.

MaxDays == 2   \* days of clock time

\* nextCheck.setUTCHours(0, 5, 0, 0): 00:05 UTC of the day of t.
setUTCHours(t) == (t - (t % DayMs)) + 5 * 60 * 1000

\* timeUntilNextCheck, had nextCheck been moved to the next day only when it
\* is before now.
timeUntilNextCheckBefore(now, read) ==
    LET nextCheck == setUTCHours(read) IN
    IF nextCheck < now THEN (nextCheck + DayMs) - now ELSE nextCheck - now

\* const timeUntilNextCheck: now and nextCheck are two readings of the
\* clock, the second one not before the first.
timeUntilNextCheck(now, read) ==
    LET nextCheck == setUTCHours(read) IN
    IF nextCheck <= now THEN (nextCheck + DayMs) - now ELSE nextCheck - now

\* The instants at which the page is loaded, the time between the two
\* readings of the clock, and the time a timeout is late by.
ClockInstants ==
    {h * HourMs + m : h \in {0, 1, 23},
                      m \in {0, 5 * 60 * 1000 - 1, 5 * 60 * 1000, 5 * 60 * 1000 + 1,
                             HourMs - 1}}
ClockSkews == {0, 1}
Lateness == {0, 1, HourMs}

\* function setupDailyCheck(), called by initializeApp at the instant clock.
SetupDailyCheck(skew) ==
    /\ build = "script" /\ ~started /\ delay = NoDelay
    /\ started' = TRUE
    /\ setupDailyCheck
    /\ delay' = timeUntilNextCheck(clock, clock + skew)
    /\ lastOp' = "setup" /\ run' = NoRun
    /\ UNCHANGED <<build, articles, currentIndex, isTransitioning, container,
                   prevDisabled, nextDisabled, fetches, nav, timers, storage,
                   callVars, relayVars, imageVars, clock>>

\* The timeout set by setupDailyCheck runs, late or not: fetchNews() if the
\* cache is stale, and setupDailyCheck() at that instant.
DailyCheckTimeout(late, skew, offset) ==
    /\ build = "script" /\ dailyTimers > 0 /\ delay # NoDelay
    /\ clock + delay + late < MaxDays * DayMs
    /\ clock' = clock + delay + late
    /\ IF shouldRefreshArticles(storage, clock', offset)
       THEN scriptStartFetch("top")
       ELSE UNCHANGED <<container, fetches>>
    /\ dailyTimers' = (dailyTimers - 1) + 1
    /\ delay' = timeUntilNextCheck(clock', clock' + skew)
    /\ lastOp' = "dailycheck" /\ run' = runAfter("dailycheck", currentIndex)
    /\ UNCHANGED <<build, started, articles, currentIndex, isTransitioning,
                   prevDisabled, nextDisabled, nav, timers, storage,
                   callVars, relayVars, imageVars>>

NextTimer ==
    \/ \E k \in ClockSkews : SetupDailyCheck(k)
    \/ \E l \in Lateness, k \in ClockSkews, z \in ZoneOffsets : DailyCheckTimeout(l, k, z)
    \/ \E i \in 1 .. MaxInFlight, r \in NewsResponses : ScriptNewsResponse(i, r)
    \/ \E i \in 1 .. MaxInFlight : ScriptContentResponse(i)

InitTimer ==
    /\ build = "script"
    /\ started = FALSE
    /\ articles = << >>
    /\ currentIndex = 0
    /\ isTransitioning = FALSE
    /\ container = EmptyContainer
    /\ prevDisabled = FALSE
    /\ nextDisabled = FALSE
    /\ fetches = << >>
    /\ nav = NoTask
    /\ timers = << >>
    /\ dailyTimers = 0
    /\ clock \in ClockInstants
    /\ storage \in {EmptyStorage, [EmptyStorage EXCEPT !.lastFetchTime = clock]}
    /\ answer = NoReply /\ parsed = NoContent
    /\ request = NoRequest /\ response = NoResponse
    /\ delay = NoDelay /\ image = NoImage
    /\ lastOp = NoOp
    /\ run = NoRun

SpecTimer == InitTimer /\ [][NextTimer]_vars

----------------------------------------------------------------------------
\* Build "part_001": src/unnamed/part_001, the page whose displayArticles
\* creates the cards one after the other, each when the poll of the one
\* before it has arrived, and whose nextArticle and prevArticle are
\* synchronous.  container.children are the children of #articles-container
\* in document order: the "Loading News" block, an error block or cards,
\* each with its class "visible" or without.  A task holds the array its
\* displayArticles iterates (batch), how many cards it has created (k) and
\* where the last one is (card, 0 once it is out of the document).

LoadingBlock == [kind |-> "loading", art |-> 0, visible |-> FALSE, poll |-> "none"]
ErrorBlock(heading) == [kind |-> "error", art |-> 0, visible |-> FALSE, poll |-> heading]

\* The element displayArticles creates for the article at index, the
\* current index being idx: its poll section holds "Loading Poll".
articleElement(article, index, idx) ==
    [kind |-> "card", art |-> article.id, visible |-> (index = idx), poll |-> "loading"]

\* The responses this build is run against.
FirstArticles(id) ==
    { sample(id, SomeTitle, 31, HttpImage) }
        \cup IF id = 1 THEN { sample(id, SomeTitle, 31, NoString) } ELSE {}
FirstResponses ==
    Failures \cup { [net |-> "ok", status |-> "ok", articles |-> b] :
                     b \in Batches(FirstArticles) }

\* A task whose element is at position p, after the child at position gone
\* has been removed.
Shift(task, gone) ==
    IF task.card > gone THEN [task EXCEPT !.card = task.card - 1] ELSE task

\* hideLoading() on a document of children ch and tasks ts:
\* querySelector('.loading-container') is the "Loading News" block or the
\* "Loading Poll" placeholder of a card, whichever comes first, and it is
\* removed.
firstHideLoading(doc) ==
    LET waiting == {i \in 1 .. Len(doc.ch) :
                       \/ doc.ch[i].kind = "loading"
                       \/ doc.ch[i].kind = "card" /\ doc.ch[i].poll = "loading"} IN
    IF waiting = {} THEN doc
    ELSE LET p == Min(waiting) IN
         IF doc.ch[p].kind = "loading"
         THEN [ch |-> Remove(doc.ch, p),
               ts |-> [j \in 1 .. Len(doc.ts) |-> Shift(doc.ts[j], p)]]
         ELSE [doc EXCEPT !.ch[p].poll = "removed"]

\* The finally blocks a handler of the given kind ends in: the one of
\* fetchNews, and for the category "all" the one of the click handler too.
firstFinally(kind, doc) ==
    IF kind = "all" THEN firstHideLoading(firstHideLoading(doc)) ELSE firstHideLoading(doc)

\* The handler of task i ends with the children ch.
firstEnd(i, ch) ==
    LET doc == firstFinally(fetches[i].kind, [ch |-> ch, ts |-> Remove(fetches, i)]) IN
    /\ container' = [children |-> doc.ch]
    /\ fetches' = doc.ts

\* The handler of task i ends having replaced the children by one block.
firstEndWith(i, block) ==
    LET doc == firstFinally(fetches[i].kind,
                            [ch |-> <<block>>,
                             ts |-> Remove([j \in 1 .. Len(fetches) |-> Detach(fetches[j])], i)]) IN
    /\ container' = [children |-> doc.ch]
    /\ fetches' = doc.ts

\* showLoading() and the request of a handler.
firstStartFetch(kind) ==
    /\ Len(fetches) < MaxInFlight
    /\ container' = [children |-> <<LoadingBlock>>]
    /\ fetches' = Append([j \in 1 .. Len(fetches) |-> Detach(fetches[j])],
                         [kind |-> kind, pc |-> "news", card |-> 0, batch |-> << >>, k |-> 0])

\* DOMContentLoaded: initializeApp() calls fetchNews().
FirstContentLoaded ==
    /\ build = "part_001" /\ ~started
    /\ started' = TRUE
    /\ firstStartFetch("fetchNews")
    /\ UNCHANGED <<build, articles, currentIndex, isTransitioning, prevDisabled,
                   nextDisabled, nav, scriptVars>>
    /\ Did("load")

\* Click on the Retry button of an error block: fetchNews().
FirstRetryClick ==
    /\ build = "part_001" /\ started
    /\ \E i \in 1 .. Len(container.children) :
          /\ container.children[i].kind = "error"
          /\ container.children[i].poll = "Error loading articles"
    /\ firstStartFetch("fetchNews")
    /\ UNCHANGED <<build, started, articles, currentIndex, isTransitioning,
                   prevDisabled, nextDisabled, nav, scriptVars>>
    /\ Did("retry")

\* Click on a category button: the index is reset, then fetchNews() for
\* "all" and getNewsByCategory for the others.
FirstCategoryClick(category) ==
    /\ build = "part_001" /\ started
    /\ currentIndex' = 0
    /\ firstStartFetch(IF category = "all" THEN "all" ELSE "category")
    /\ UNCHANGED <<build, started, articles, isTransitioning, prevDisabled,
                   nextDisabled, nav, scriptVars>>
    /\ DidAt("category", 0)

\* handleSearch() with a term: the request is made.
FirstSearch ==
    /\ build = "part_001" /\ started
    /\ firstStartFetch("search")
    /\ UNCHANGED <<build, started, articles, currentIndex, isTransitioning,
                   prevDisabled, nextDisabled, nav, scriptVars>>
    /\ Did("search")

\* What the handler of the given kind makes of a response: whether it goes
\* on to displayArticles, the batch it has assigned by then, and whether it
\* resets the index.
firstNewsResult(kind, r) ==
    LET ok == r.status = "ok" IN
    IF kind \in {"fetchNews", "all"}
    THEN IF r.net = "ok" /\ ok /\ Len(r.articles) > 0
         THEN [display |-> Len(Filter(r.articles)) > 0, articles |-> Filter(r.articles),
               reset |-> Len(Filter(r.articles)) > 0]
         ELSE [display |-> FALSE, articles |-> articles, reset |-> FALSE]
    ELSE IF r.net # "reject" /\ ok
         THEN [display |-> TRUE, articles |-> Filter(r.articles), reset |-> kind = "search"]
         ELSE [display |-> FALSE, articles |-> articles, reset |-> FALSE]

\* The response of the i-th request arrives: the batch is assigned and
\* displayArticles creates its first card, or writes "No articles found";
\* or the handler writes its error block.
FirstNewsResponse(i, r) ==
    /\ build = "part_001"
    /\ i \in 1 .. Len(fetches) /\ fetches[i].pc = "news"
    /\ LET res == firstNewsResult(fetches[i].kind, r)
           idx == IF res.reset THEN 0 ELSE currentIndex IN
        /\ articles' = res.articles
        /\ currentIndex' = idx
        /\ IF res.display /\ Len(res.articles) > 0
           THEN /\ container' = [children |-> <<articleElement(res.articles[1], 0, idx)>>]
                /\ fetches' = [[j \in 1 .. Len(fetches) |-> Detach(fetches[j])] EXCEPT
                                  ![i] = [fetches[i] EXCEPT !.pc = "ai", !.card = 1,
                                                            !.batch = res.articles, !.k = 1]]
                /\ DidAt("shown", idx)
           ELSE /\ firstEndWith(i, IF res.display THEN ErrorBlock("No articles found")
                                   ELSE IF fetches[i].kind = "search"
                                        THEN ErrorBlock("Error searching articles")
                                        ELSE ErrorBlock("Error loading articles"))
                /\ DidAt("failed", idx)
    /\ UNCHANGED <<build, started, isTransitioning, prevDisabled, nextDisabled, nav,
                   scriptVars>>

\* The poll of the card the i-th task created last arrives: it is written
\* into that card, and the next card of the task's batch is created; after
\* the last one updateNavigation() runs and the handler ends.
FirstPollResponse(i) ==
    /\ build = "part_001"
    /\ i \in 1 .. Len(fetches) /\ fetches[i].pc = "ai"
    /\ LET t == fetches[i]
           ch == IF t.card = 0 THEN container.children
                 ELSE [container.children EXCEPT ![t.card].poll = "shown"] IN
        IF t.k < Len(t.batch)
        THEN /\ container' =
                   [children |-> Append(ch, articleElement(t.batch[t.k + 1], t.k, currentIndex))]
             /\ fetches' = [fetches EXCEPT ![i] = [t EXCEPT !.k = t.k + 1, !.card = Len(ch) + 1]]
             /\ UNCHANGED <<prevDisabled, nextDisabled>>
        ELSE /\ updateNavigation(currentIndex, articles)
             /\ firstEnd(i, ch)
    /\ UNCHANGED <<build, started, articles, currentIndex, isTransitioning, nav,
                   scriptVars>>
    /\ Did("fetchpoll")

\* The body of nextArticle / prevArticle once its guard has passed, moving
\* the index by d: the flag is set, and classList of a child that is not
\* there throws, which leaves the flag set.
firstNavigate(d) ==
    LET ch == container.children
        from == currentIndex + 1
        to == currentIndex + 1 + d IN
    IF from \notin DOMAIN ch
    THEN /\ isTransitioning' = TRUE
         /\ UNCHANGED <<currentIndex, container, prevDisabled, nextDisabled>>
    ELSE IF to \notin DOMAIN ch
    THEN /\ isTransitioning' = TRUE
         /\ container' = [children |-> [ch EXCEPT ![from].visible = FALSE]]
         /\ UNCHANGED <<currentIndex, prevDisabled, nextDisabled>>
    ELSE /\ container' = [children |-> [ch EXCEPT ![from].visible = FALSE, ![to].visible = TRUE]]
         /\ currentIndex' = currentIndex + d
         /\ updateNavigation(currentIndex + d, articles)
         /\ isTransitioning' = FALSE

\* function nextArticle()
firstNextArticle ==
    IF isTransitioning \/ currentIndex >= Len(articles) - 1
    THEN UNCHANGED <<currentIndex, isTransitioning, container, prevDisabled, nextDisabled>>
    ELSE firstNavigate(1)

\* function prevArticle()
firstPrevArticle ==
    IF isTransitioning \/ currentIndex <= 0
    THEN UNCHANGED <<currentIndex, isTransitioning, container, prevDisabled, nextDisabled>>
    ELSE firstNavigate(-1)

FirstNextClick ==
    /\ build = "part_001" /\ started /\ ~nextDisabled
    /\ firstNextArticle
    /\ UNCHANGED <<build, started, articles, fetches, nav, scriptVars>>
    /\ Did("next")

FirstPrevClick ==
    /\ build = "part_001" /\ started /\ ~prevDisabled
    /\ firstPrevArticle
    /\ UNCHANGED <<build, started, articles, fetches, nav, scriptVars>>
    /\ Did("prev")

\* Click on a poll option of a card on screen: handleVote calls
\* nextArticle().
FirstVoteClick ==
    /\ build = "part_001" /\ started
    /\ \E i \in 1 .. Len(container.children) :
          /\ container.children[i].kind = "card" /\ container.children[i].visible
          /\ container.children[i].poll = "shown"
    /\ firstNextArticle
    /\ UNCHANGED <<build, started, articles, fetches, nav, scriptVars>>
    /\ Did("vote")

NextFirst ==
    \/ FirstContentLoaded
    \/ FirstRetryClick
    \/ \E c \in Categories : FirstCategoryClick(c)
    \/ FirstSearch
    \/ \E i \in 1 .. MaxInFlight, r \in FirstResponses : FirstNewsResponse(i, r)
    \/ \E i \in 1 .. MaxInFlight : FirstPollResponse(i)
    \/ FirstNextClick
    \/ FirstPrevClick
    \/ FirstVoteClick

InitFirst ==
    /\ build = "part_001"
    /\ started = FALSE
    /\ articles = << >>
    /\ currentIndex = 0
    /\ isTransitioning = FALSE
    /\ container = [children |-> << >>]
    /\ prevDisabled = FALSE
    /\ nextDisabled = FALSE
    /\ fetches = << >>
    /\ nav = NoTask
    /\ timers = << >>
    /\ dailyTimers = 0
    /\ storage = EmptyStorage
    /\ answer = NoReply /\ parsed = NoContent
    /\ request = NoRequest /\ response = NoResponse
    /\ clock = 0 /\ delay = NoDelay /\ image = NoImage
    /\ lastOp = NoOp
    /\ run = NoRun

SpecFirst == InitFirst /\ [][NextFirst]_vars

\* The requests of the page are answered in the end.
FairFirst ==
    /\ SpecFirst
    /\ WF_vars(\E i \in 1 .. MaxInFlight, r \in FirstResponses : FirstNewsResponse(i, r))
    /\ WF_vars(\E i \in 1 .. MaxInFlight : FirstPollResponse(i))

----------------------------------------------------------------------------
\* One call of generatePollContent (src/public/app.js, lines 744-811)

MaxLines == 4   \* lines of a text, not counting a closing remark

\* The lines the texts are made of, each with what the three replace calls
\* are to leave of it: the label, then the number, then the dash go, with
\* the blanks behind each.
SampleLines ==
    { [raw |-> <<"Q", ":", " ", "S", "h", "o", "u", "l", "d", " ", "X", "?">>,
       stripped |-> <<"S", "h", "o", "u", "l", "d", " ", "X", "?">>],
      [raw |-> <<"-", " ", "Y", "e", "s">>,
       stripped |-> <<"Y", "e", "s">>],
      [raw |-> <<"2", ")", " ", "N", "o">>,
       stripped |-> <<"N", "o">>],
      [raw |-> <<"M", "a", "y", "b", "e">>,
       stripped |-> <<"M", "a", "y", "b", "e">>],
      [raw |-> <<"A", ".">>,
       stripped |-> << >>],
      [raw |-> <<"A", "g", "r", "e", "e">>,
       stripped |-> <<"g", "r", "e", "e">>],
      [raw |-> <<"O", "p", "t", "i", "o", "n", " ", "3", ")", " ", "-", " ", "S", "o">>,
       stripped |-> <<"S", "o">>],
      [raw |-> <<"1", ".", " ", "o", ":", " ", "-", "x">>,
       stripped |-> <<"o", ":", " ", "-", "x">>],
      [raw |-> << >>,
       stripped |-> << >>] }

\* A line that follows the poll in some texts.
ClosingRemark == <<"N", "e", "v", "e", "r">>

\* Array.prototype.join('\n')
RECURSIVE join(_)
join(lines) ==
    IF lines = << >> THEN << >>
    ELSE IF Len(lines) = 1 THEN lines[1]
    ELSE lines[1] \o <<"\n">> \o join(Tail(lines))

\* The texts of up to MaxLines of these lines, with and without the remark.
SampleTexts ==
    LET polls == UNION { [1 .. n -> {l.raw : l \in SampleLines}] : n \in 0 .. MaxLines }
    IN  {join(p) : p \in polls} \cup {join(Append(p, ClosingRemark)) : p \in polls}

\* What the calls are made with.
SampleReplies ==
    (ContentReplies \ {[NoReply EXCEPT !.content = text] : text \in RawTexts})
        \cup {[NoReply EXCEPT !.content = text] : text \in SampleTexts}

\* const pollContent = await generatePollContent(article), once the request
\* has come to answer.
GeneratePollContent ==
    /\ parsed = NoContent
    /\ parsed' = generatePollContent(answer)
    /\ lastOp' = "parse"
    /\ UNCHANGED <<pageVars, relayVars, timerVars, imageVars, answer, run>>

InitParse ==
    /\ build = "app"
    /\ started = FALSE
    /\ articles = << >>
    /\ currentIndex = 0
    /\ isTransitioning = FALSE
    /\ container = EmptyContainer
    /\ prevDisabled = FALSE
    /\ nextDisabled = FALSE
    /\ fetches = << >>
    /\ nav = NoTask
    /\ timers = << >>
    /\ dailyTimers = 0
    /\ storage = EmptyStorage
    /\ answer \in SampleReplies /\ parsed = NoContent
    /\ request = NoRequest /\ response = NoResponse
    /\ clock = 0 /\ delay = NoDelay /\ image = NoImage
    /\ lastOp = NoOp
    /\ run = NoRun

NextParse == GeneratePollContent

SpecParse == InitParse /\ [][NextParse]_vars

----------------------------------------------------------------------------
\* The relay: src/server.js

\* A query parameter that is given.
Param(value) == [present |-> TRUE, value |-> value]

\* What Express makes of the value of a query parameter: it ends at the
\* first "&", "+" stands for a blank and %XX for a character.
RECURSIVE decodeURIComponent(_)
decodeURIComponent(text) ==
    IF text = << >> THEN << >>
    ELSE IF text[1] = "%" /\ \E e \in Escapes : StartsWith(text, e[2])
    THEN <<(CHOOSE e \in Escapes : StartsWith(text, e[2]))[1]>>
             \o decodeURIComponent(SubSeq(text, 4, Len(text)))
    ELSE <<IF text[1] = "+" THEN " " ELSE text[1]>> \o decodeURIComponent(Tail(text))

queryValue(text) ==
    LET at == {k \in 1 .. Len(text) : text[k] = "&"} IN
    decodeURIComponent(IF at = {} THEN text ELSE SubSeq(text, 1, Min(at) - 1))

\* The image URLs articles come with: none, two without a scheme, two with.
NotAUrl == <<"n", "o", "t", "-", "a", "-", "u", "r", "l">>
HttpsImage ==
    <<"h", "t", "t", "p", "s", ":", "/", "/", "x", "/", "y", ".", "j", "p", "g", "?", "w", "=", "1", "&", "h", "=", "2">>
ImageUrls == {NoString, OtherImage, NotAUrl, HttpImage, HttpsImage}

\* What a fetch of the relay can come to: a response that is ok, one that
\* is not, or a rejection.
FetchOutcomes == {"ok", "status", "reject"}

\* res.sendFile(path.join(__dirname, 'public', 'fallback.svg'))
sendFallback == [NoResponse EXCEPT !.status = 200, !.body = "fallback.svg"]

\* body.pipe(res) of what a fetch returned, under the default status.
pipe(body) == [NoResponse EXCEPT !.status = 200, !.body = body]

\* app.get('/api/proxy-image') up to its first await, asked with src, the
\* query parameter url being imageUrl.
getProxyImage(src, imageUrl) ==
    IF ~imageUrl.present \/ imageUrl.value = NoString
    THEN /\ request' = [NoRequest EXCEPT !.route = "proxy-image", !.pc = "done",
                                         !.src = src, !.url = imageUrl]
         /\ response' = sendFallback
    ELSE IF ~StartsWith(imageUrl.value, <<"h", "t", "t", "p">>)
    THEN /\ request' = [NoRequest EXCEPT !.route = "proxy-image", !.pc = "done",
                                         !.src = src, !.url = imageUrl]
         /\ response' = sendFallback
    ELSE /\ request' = [NoRequest EXCEPT !.route = "proxy-image", !.pc = "origin",
                                         !.src = src, !.url = imageUrl]
         /\ response' = NoResponse

\* The relay handles one request after the other here: its handlers share
\* no state.
Free == request.pc \in {"idle", "done", "unhandled"}

\* The browser loads the <img> of the card of article: the local asset, which
\* express.static serves, or the proxy.
LoadImage(article) ==
    /\ Free
    /\ LET src == imageSrc(article) IN
       IF src.path = "fallback.svg"
       THEN /\ request' = [NoRequest EXCEPT !.route = "static", !.pc = "done", !.src = src]
            /\ response' = sendFallback
       ELSE getProxyImage(src, Param(queryValue(src.url)))
    /\ lastOp' = "image"
    /\ UNCHANGED <<pageVars, callVars, timerVars, imageVars, run>>

\* GET /api/proxy-image from anyone, with or without the parameter.
GetProxyImage(imageUrl) ==
    /\ Free
    /\ getProxyImage(NoRequest.src, imageUrl)
    /\ lastOp' = "proxy"
    /\ UNCHANGED <<pageVars, callVars, timerVars, imageVars, run>>

\* The fetch of the original image settles.  A response that is not ok is
\* answered inside the try block and a rejection inside the catch block,
\* both with a fetch of a picsum.photos image.
ProxyOriginFetched(outcome) ==
    /\ request.route = "proxy-image" /\ request.pc = "origin"
    /\ CASE outcome = "ok" ->
                /\ response' = pipe("original")
                /\ request' = [request EXCEPT !.pc = "done"]
         [] outcome = "status" ->
                /\ request' = [request EXCEPT !.pc = "placeholder"]
                /\ UNCHANGED response
         [] outcome = "reject" ->
                /\ request' = [request EXCEPT !.pc = "placeholder-caught"]
                /\ UNCHANGED response
    /\ lastOp' = "origin"
    /\ UNCHANGED <<pageVars, callVars, timerVars, imageVars, run>>

\* What becomes of a request whose async handler rejects: Express 4 leaves
\* it without a response, Express 5 answers 500.
Unhandled == {NoResponse, [NoResponse EXCEPT !.status = 500, !.body = "error"]}

\* The fetch of the picsum.photos image settles.  Whatever came back is
\* piped, ok or not.  A rejection inside the try block enters the catch
\* block, which fetches again; a rejection inside the catch block leaves the
\* handler.
ProxyPlaceholderFetched(outcome) ==
    /\ request.route = "proxy-image"
    /\ request.pc \in {"placeholder", "placeholder-caught"}
    /\ CASE outcome = "ok" ->
                /\ response' = pipe("placeholder")
                /\ request' = [request EXCEPT !.pc = "done"]
         [] outcome = "status" ->
                /\ response' = pipe("placeholder-error")
                /\ request' = [request EXCEPT !.pc = "done"]
         [] outcome = "reject" ->
                IF request.pc = "placeholder"
                THEN /\ request' = [request EXCEPT !.pc = "placeholder-caught"]
                     /\ UNCHANGED response
                ELSE /\ request' = [request EXCEPT !.pc = "unhandled"]
                     /\ response' \in Unhandled
    /\ lastOp' = "placeholder"
    /\ UNCHANGED <<pageVars, callVars, timerVars, imageVars, run>>

\* String.prototype.includes
includes(text, word) ==
    \E k \in 0 .. Len(text) - Len(word) : SubSeq(text, k + 1, k + Len(word)) = word

Top == <<"t", "o", "p">>

\* The values of q: none, an empty one, "top", and four others.
NewsQueries ==
    { NoParam, Param(NoString), Param(Top), Param(<<"T", "o", "p">>),
      Param(<<"W", "O", "R", "L", "D">>),
      Param(<<"s", "p", "o", "r", "t", "s">>),
      Param(<<"A", "I", " ", "O", "R", " ", "t", "e", "c", "h">>) }

\* What NewsAPI can answer the relay.
UpstreamResponses ==
    Failures \cup { [net |-> "ok", status |-> "ok", articles |-> b] :
                     b \in Batches(UpstreamArticles) }

\* GetNews, had it taken an empty q for a query.
GetNewsStrict(q) ==
    /\ Free
    /\ LET query == IF q.present THEN q.value ELSE Top
           formattedQuery == IF includes(query, <<"O", "R">>)
                             THEN <<"(">> \o query \o <<")">> ELSE query
       IN  request' = IF query = Top
                      THEN [NoRequest EXCEPT !.route = "news", !.pc = "upstream", !.q = q,
                                             !.mode = "top-headlines"]
                      ELSE [NoRequest EXCEPT !.route = "news", !.pc = "upstream", !.q = q,
                                             !.mode = "everything",
                                             !.query = formattedQuery]
    /\ response' = NoResponse
    /\ lastOp' = "news"
    /\ UNCHANGED <<pageVars, callVars, timerVars, imageVars, run>>

\* app.get('/api/news') up to its await of NewsAPI: mode is the endpoint and
\* query what is asked of it, before it is encoded.
GetNews(q) ==
    /\ Free
    /\ LET query == IF q.present /\ q.value # NoString THEN q.value ELSE Top
           formattedQuery == IF includes(query, <<"O", "R">>)
                             THEN <<"(">> \o query \o <<")">> ELSE query
       IN  request' = IF query = Top
                      THEN [NoRequest EXCEPT !.route = "news", !.pc = "upstream", !.q = q,
                                             !.mode = "top-headlines"]
                      ELSE [NoRequest EXCEPT !.route = "news", !.pc = "upstream", !.q = q,
                                             !.mode = "everything",
                                             !.query = formattedQuery]
    /\ response' = NoResponse
    /\ lastOp' = "news"
    /\ UNCHANGED <<pageVars, callVars, timerVars, imageVars, run>>

\* NewsAPI has answered, or the fetch has failed.
NewsUpstreamResponse(r) ==
    /\ request.route = "news" /\ request.pc = "upstream"
    /\ request' = [request EXCEPT !.pc = "done"]
    /\ response' =
          IF r.net # "ok"
          THEN [NoResponse EXCEPT !.status = 500, !.body = "Internal server error"]
          ELSE IF r.status = "ok"
          THEN [NoResponse EXCEPT !.status = 200, !.body = "ok",
                                  !.articles = serverFilter(r.articles)]
          ELSE [NoResponse EXCEPT !.status = 500, !.body = "Error fetching news"]
    /\ lastOp' = "upstream"
    /\ UNCHANGED <<pageVars, callVars, timerVars, imageVars, run>>

NextRelay ==
    \/ \E url \in ImageUrls : LoadImage(sample(1, SomeTitle, 31, url))
    \/ \E url \in ImageUrls : GetProxyImage(Param(url))
    \/ GetProxyImage(NoParam)
    \/ \E outcome \in FetchOutcomes : ProxyOriginFetched(outcome)
    \/ \E outcome \in FetchOutcomes : ProxyPlaceholderFetched(outcome)
    \/ \E q \in NewsQueries : GetNews(q)
    \/ \E r \in UpstreamResponses : NewsUpstreamResponse(r)

SpecRelay == InitApp /\ [][NextRelay]_vars

----------------------------------------------------------------------------
\* The <img> of a card and its onerror attribute (src/public/app.js 846-850
\* and 279-283, src/unnamed/part_001 229).  image.pc says whether the source
\* is being loaded, has loaded or has failed for good; image.swaps counts the
\* times the hook has set the source.

MaxSwaps == 3   \* times the hook may set the source

\* The articles a card is rendered for.
ImageArticles ==
    { sample(id, title, 31, url) :
        id \in ArticleIds, title \in {SomeTitle, NoString}, url \in ImageUrls }

\* The <img> as the template of the build writes it.
imgElement(article) ==
    IF build = "app"
    THEN [art |-> article.id, alt |-> article.title, src |-> imageSrc(article),
          onerror |-> "fallback.svg", pc |-> "loading", swaps |-> 0]
    ELSE [art |-> article.id, alt |-> article.title,
          src |-> [path |-> "original", url |-> article.urlToImage],
          onerror |-> "placeholder.svg", pc |-> "loading", swaps |-> 0]

\* The onerror attribute run on an element:
\* "this.onerror=null; this.src='fallback.svg'; ..." in app.js,
\* "this.src='placeholder.svg'" in part_001.  Setting src starts a load.
onerror(img) ==
    IF img.onerror = "fallback.svg"
    THEN [img EXCEPT !.onerror = "none", !.src = [path |-> "fallback.svg", url |-> NoString],
                     !.pc = "loading", !.swaps = img.swaps + 1]
    ELSE [img EXCEPT !.src = [path |-> "placeholder.svg", url |-> NoString],
                     !.pc = "loading", !.swaps = img.swaps + 1]

\* A card is rendered for an article; the builds keep the articles with an
\* image URL, and app.js renders the others too.
RenderImage(article) ==
    /\ build = "app" \/ article.urlToImage # NoString
    /\ image' = imgElement(article)
    /\ lastOp' = "render"
    /\ UNCHANGED <<pageVars, callVars, relayVars, timerVars, run>>

\* The source of the element has loaded.
ImageLoaded ==
    /\ image.pc = "loading"
    /\ image' = [image EXCEPT !.pc = "loaded"]
    /\ lastOp' = "imageload"
    /\ UNCHANGED <<pageVars, callVars, relayVars, timerVars, run>>

\* The source of the element has failed to load: the error event runs the
\* onerror attribute, if the element has one.
ImageError ==
    /\ image.pc = "loading" /\ image.swaps < MaxSwaps
    /\ image' = IF image.onerror = "none" THEN [image EXCEPT !.pc = "failed"]
                ELSE onerror(image)
    /\ lastOp' = "imageerror"
    /\ UNCHANGED <<pageVars, callVars, relayVars, timerVars, run>>

NextImage ==
    \/ \E article \in ImageArticles : RenderImage(article)
    \/ ImageLoaded
    \/ ImageError

InitImage ==
    /\ build \in {"app", "part_001"}
    /\ started = FALSE
    /\ articles = << >>
    /\ currentIndex = 0
    /\ isTransitioning = FALSE
    /\ container = EmptyContainer
    /\ prevDisabled = FALSE
    /\ nextDisabled = FALSE
    /\ fetches = << >>
    /\ nav = NoTask
    /\ timers = << >>
    /\ dailyTimers = 0
    /\ storage = EmptyStorage
    /\ answer = NoReply /\ parsed = NoContent
    /\ request = NoRequest /\ response = NoResponse
    /\ clock = 0 /\ delay = NoDelay /\ image = NoImage
    /\ lastOp = NoOp
    /\ run = NoRun

SpecImage == InitImage /\ [][NextImage]_vars

----------------------------------------------------------------------------
\* Properties

NavOps == {"next", "prev", "vote"}

\* The news requests in flight in a queue of tasks.
NewsPending(f) == Cardinality({i \in 1 .. Len(f) : f[i].pc = "news"})

\* C1: whenever the current batch is non-empty the cursor is inside it,
\* 0 <= currentIndex < articles.length, in every reachable state.
CursorInBatch ==
    Len(articles) > 0 => (0 <= currentIndex /\ currentIndex < Len(articles))

NavigationRejected ==
    [][(lastOp' \in NavOps /\ isTransitioning) =>
          UNCHANGED <<currentIndex, articles, container, fetches, nav>>]_vars

\* C3 (amended): a next or prev call, and a vote in the build "app", arriving
\* while isTransitioning is true changes neither currentIndex nor the batch
\* nor the rendered view, issues no request and sets no timer. A vote in
\* the build "script" is not turned down by the flag: it marks the option
\* and sets its timer, and only the nextArticle() of that timer is turned
\* down when the flag is up as it fires.
RejectedWhileTransitioning ==
    [][/\ ((lastOp' \in {"next", "prev"} \/ (build = "app" /\ lastOp' = "vote"))
              /\ isTransitioning) =>
            UNCHANGED <<currentIndex, articles, container, isTransitioning,
                        prevDisabled, nextDisabled, fetches, nav, timers>>
       /\ (build = "script" /\ lastOp' = "vote") =>
            /\ timers' = Append(timers, "vote")
            /\ \E o \in PollOptions : container' = selectOption(container, o)
       /\ (lastOp' = "votetimer" /\ isTransitioning) =>
            UNCHANGED <<currentIndex, articles, container, isTransitioning,
                        fetches, nav>>]_vars

\* C3 witness: a next click has just been turned down although the index
\* is not the last one: the timer of the previous transition is pending.
NextRejectedByFlag ==
    /\ build = "app" /\ lastOp = "next" /\ nav.pc = "timer" /\ isTransitioning
    /\ currentIndex < Len(articles) - 1

\* C4: while a news fetch is in flight, next, prev and vote change neither
\* the cursor nor the container.
NoNavigationWhileLoading ==
    [][(build = "app" /\ lastOp' \in NavOps /\ NewsPending(fetches) > 0) =>
          UNCHANGED <<currentIndex, container>>]_vars

\* C5 (as stated): after k >= N - 1 consecutive next calls from index 0 of a
\* batch of N the index is N - 1.
ConsecutiveNextReachLast ==
    (run # NoRun /\ run.calls >= Len(articles) - 1) => currentIndex = Len(articles) - 1

\* C5 (amended): a next call moves the index by exactly +1 when the flag is
\* down and index + 1 < total, and changes nothing otherwise; and k >= N - 1
\* consecutive next calls, each made while isTransitioning is false, lead
\* from index 0 of a batch of N to N - 1 and leave it there.
NextClamped ==
    /\ [][lastOp' = "next" =>
            IF ~isTransitioning /\ currentIndex + 1 < Len(articles)
            THEN currentIndex' = currentIndex + 1 /\ articles' = articles
            ELSE UNCHANGED <<currentIndex, articles, container, isTransitioning>>]_vars
    /\ []((run # NoRun /\ run.settled >= Len(articles) - 1) =>
            currentIndex = Len(articles) - 1)

\* C5 witness: two next calls, each made with the flag down, have led from
\* index 0 of a batch of three to its last index.
NextReachedLast ==
    /\ build = "app" /\ lastOp = "next" /\ run # NoRun /\ run.settled = 2
    /\ Len(articles) = 3 /\ currentIndex = 2

\* C6: a prev call moves the index by exactly -1 when index - 1 >= 0 and
\* the flag is down, and changes neither cursor nor batch nor container
\* otherwise; the index never goes below 0.
PrevClamped ==
    [][lastOp' = "prev" =>
          /\ currentIndex' >= 0
          /\ IF ~isTransitioning /\ currentIndex - 1 >= 0
             THEN currentIndex' = currentIndex - 1 /\ articles' = articles
             ELSE UNCHANGED <<currentIndex, articles, container, isTransitioning>>]_vars

\* C6 witness: a prev click at index 0, with the flag down, has left the
\* index at 0.
PrevAtFirstIndex ==
    /\ build = "app" /\ lastOp = "prev" /\ currentIndex = 0 /\ ~isTransitioning
    /\ Len(articles) > 1

\* C7: a fetch that succeeds with a non-empty batch leaves the cursor at 0
\* and the first article of the new batch displayed.
FetchShowsFirst ==
    [][lastOp' = "shown" =>
          /\ Len(articles') > 0
          /\ currentIndex' = 0
          /\ container'.visible = 1
          /\ container'.cards[1].art = articles'[1].id]_vars

\* C8: a fetch that fails, or yields no article, leaves an error block with
\* a retry button in the container, and no card.
FailureShowsError ==
    [][lastOp' = "failed" =>
          /\ container'.error # "none"
          /\ container'.retry
          /\ container'.cards = << >>]_vars

\* C9 (as stated): the handler of a failed fetch issues no request, and
\* once an error block is on screen a news request is issued only by the
\* retry button, a category button or a search.
OnlyCallersFetchAfterError ==
    [][/\ lastOp' = "failed" => NewsPending(fetches') = NewsPending(fetches) - 1
       /\ (container.error # "none" /\ NewsPending(fetches') > NewsPending(fetches)) =>
              lastOp' \in {"retry", "category", "search"}]_vars

\* C9 (amended): the handler of a failed fetch issues no request, and once
\* an error block is on screen a news request is issued only by the retry
\* button, a category button, a search, or the daily check of the build
\* "script" when its timer fires.
NoAutomaticRetry ==
    [][/\ lastOp' = "failed" => NewsPending(fetches') = NewsPending(fetches) - 1
       /\ (container.error # "none" /\ NewsPending(fetches') > NewsPending(fetches)) =>
              lastOp' \in {"retry", "category", "search", "dailycheck"}]_vars

\* C9 witness: a fetch has just failed and no request is in flight.
FailedAndQuiet ==
    lastOp = "failed" /\ container.error # "none" /\ fetches = << >>

\* C10 (as stated): the step of a vote is the step a next call takes from
\* the same state.
VoteIsNext ==
    [][lastOp' = "vote" =>
          IF build = "app"
          THEN nextArticle
          ELSE scriptNextArticle(timers)]_vars

\* C10 (amended): in the build "app" the step of a vote is the step a next
\* call takes from the same state; in the build "script" a vote marks the
\* option and sets a 500 ms timer, leaving cursor and batch alone, and the
\* step of that timer is the step of a next call made when it fires.
VoteAttemptsNext ==
    [][/\ (build = "app" /\ lastOp' = "vote") => nextArticle
       /\ (build = "script" /\ lastOp' = "vote") =>
              /\ timers' = Append(timers, "vote")
              /\ UNCHANGED <<currentIndex, articles, isTransitioning>>
       /\ lastOp' = "votetimer" => scriptNextArticle(Tail(timers))]_vars

\* C10 witness: a vote has just advanced the feed.
VoteAdvanced ==
    /\ build = "app" /\ lastOp = "vote" /\ nav.pc = "poll" /\ currentIndex > 0

\* The poll-generation requests in flight that were issued at the index at.
PollsPending(at) ==
    Cardinality({i \in 1 .. Len(fetches) : fetches[i].pc = "poll" /\ fetches[i].index = at})
        + (IF nav.pc = "poll" /\ nav.index = at THEN 1 ELSE 0)

\* C11: at any time at most one poll-generation request is in flight for a
\* cursor position.
OnePollPerPosition ==
    \A at \in 0 .. MaxArticles - 1 : PollsPending(at) <= 1

\* C12: at most one news fetch is in flight at any time.
FetchesSerialized == NewsPending(fetches) <= 1

\* The UTC calendar day of an instant, and the time of day, 00:05 UTC, from
\* which the provider's reset is taken to be over.
UTCDay(t) == t \div DayMs
GraceMs == 5 * 60 * 1000

\* C13: for every cached timestamp, instant and zone offset,
\* shouldRefreshArticles is false when the instant is on the UTC day of the
\* timestamp, and true when it is on a later UTC day, 00:05 UTC or later.
StaleByUTCDay ==
    storage.lastFetchTime # Absent =>
        \A now \in Instants, offset \in ZoneOffsets :
            /\ UTCDay(now) = UTCDay(storage.lastFetchTime) =>
                  ~shouldRefreshArticles(storage, now, offset)
            /\ (UTCDay(now) > UTCDay(storage.lastFetchTime) /\ now % DayMs >= GraceMs) =>
                  shouldRefreshArticles(storage, now, offset)

\* C14: the step that ends a fetch with a batch leaves exactly that batch in
\* the cache, with a time stamp.
CacheHoldsFetched ==
    [][(build = "script" /\ lastOp' = "shown") =>
          /\ storage'.cachedArticles = JSONstringify(articles')
          /\ storage'.lastFetchTime # Absent]_vars

\* The start-up fetch has just come back with a batch.
StartupFetched ==
    \E i \in 1 .. Len(fetches) :
        /\ fetches[i].kind = "init" /\ fetches[i].pc = "news"
        /\ i <= Len(fetches') /\ fetches'[i].kind = "init" /\ fetches'[i].pc = "ai"

\* C15: at start-up a cached batch is served without a news request only if
\* the cache holds one that is not stale, and a request is issued otherwise;
\* the batch a start-up fetch brings is stored in the cache.
StartupUsesCache ==
    [][/\ (build = "script" /\ lastOp' = "load") =>
            IF NewsPending(fetches') = NewsPending(fetches)
            THEN /\ storage.cachedArticles # NoText
                 /\ \E now \in Instants, offset \in ZoneOffsets :
                        ~shouldRefreshArticles(storage, now, offset)
                 /\ articles' = JSONparse(storage.cachedArticles)
            ELSE articles' = articles
       /\ (build = "script" /\ StartupFetched) =>
            storage'.cachedArticles = JSONstringify(articles')]_vars

OneCheckPending == dailyTimers <= 1

\* C17: every firing of the daily check re-arms it, so once a check is
\* pending one is pending ever after, and the check fires again and again.
RecurringCheck ==
    /\ [][/\ dailyTimers > 0 => dailyTimers' > 0
          /\ lastOp' = "dailycheck" => dailyTimers' = dailyTimers]_vars
    /\ ([](dailyTimers = 0) \/ []<><<DailyCheckFires>>_vars)

\* C17 witness: a daily check has fired and the next one is pending.
CheckRearmed == lastOp = "dailycheck" /\ dailyTimers = 1

\* C19: every article of the batch on display has a title, a description of
\* more than 30 characters and an image URL that starts with "http", whichever
\* fetch brought the batch.
ReadyBatchValid ==
    \A i \in 1 .. Len(articles) :
        /\ articles[i].title # NoString
        /\ articles[i].descriptionLength > 30
        /\ StartsWith(articles[i].urlToImage, <<"h", "t", "t", "p">>)

\* C19 in the build that asks the relay: the same, there.
RelayBatchValid == build = "app" => ReadyBatchValid

\* The lines of a reply that are not blank; a reply without a text has none.
usableLines(reply) ==
    IF throws(reply) THEN 0
    ELSE Len(SelectSeq(split(reply.content),
                       LAMBDA line : \E k \in 1 .. Len(line) : line[k] \notin WhiteSpace))

\* The replies with fewer than 4 such lines.
UsableLineCount == [reply \in ContentReplies |-> usableLines(reply)]
ShortReplies == {reply \in ContentReplies : UsableLineCount[reply] < 4}

\* C20: whatever the request for a poll comes to, the poll put on a card has
\* a question that is not empty and exactly 3 options, and it is the default
\* poll whenever the reply has fewer than 4 lines that are not blank.
ParsingTotal ==
    /\ [](build = "app" =>
            \A i \in 1 .. Len(container.cards) :
                container.cards[i].poll.state = "shown" =>
                    /\ container.cards[i].poll.content.question # << >>
                    /\ Len(container.cards[i].poll.content.answers) = 3)
    /\ [][/\ (build = "app" /\ lastOp' = "navpoll" /\ nav.card # 0) =>
                \A reply \in ShortReplies :
                    AppNavPollResponse(reply) =>
                        container'.cards[nav.card].poll.content = DefaultPoll
          /\ (build = "app" /\ lastOp' = "fetchpoll") =>
                \A reply \in ShortReplies, i \in 1 .. Len(fetches) :
                    (fetches[i].card # 0 /\ AppFetchPollResponse(i, reply)) =>
                        container'.cards[fetches[i].card].poll.content = DefaultPoll]_vars

\* C20 witness: a card shows a poll that was parsed from a reply of four
\* lines, and another reply has left the default poll on a card.
ParsedPollShown ==
    /\ build = "app" /\ lastOp \in {"fetchpoll", "navpoll"}
    /\ \E i \in 1 .. Len(container.cards) :
            /\ container.cards[i].poll.state = "shown"
            /\ container.cards[i].poll.content # DefaultPoll
            /\ Len(container.cards[i].poll.content.answers) = 3

\* What SampleLines says is left of a line.
Stripped(line) ==
    IF line = ClosingRemark THEN line
    ELSE (CHOOSE l \in SampleLines : l.raw = line).stripped

\* The lines of a text that are not blank.
UsableLinesOf(text) ==
    SelectSeq(split(text), LAMBDA line : \E k \in 1 .. Len(line) : line[k] \notin WhiteSpace)

\* "Q: Should X?", "- Yes", "2) No", "Maybe"
ExampleText ==
    join(<< <<"Q", ":", " ", "S", "h", "o", "u", "l", "d", " ", "X", "?">>,
            <<"-", " ", "Y", "e", "s">>, <<"2", ")", " ", "N", "o">>,
            <<"M", "a", "y", "b", "e">> >>)
ExamplePoll ==
    [question |-> <<"S", "h", "o", "u", "l", "d", " ", "X", "?">>,
     answers |-> << <<"Y", "e", "s">>, <<"N", "o">>, <<"M", "a", "y", "b", "e">> >>]

\* C21: a text of four lines gives the poll of its lines, each without its
\* label, then without its enumeration marker, then without its dash (unless
\* that empties the question); the text of the example gives "Should X?"
\* with "Yes", "No" and "Maybe".
StrippedInOrder ==
    (parsed # NoContent /\ ~throws(answer)) =>
        LET lines == UsableLinesOf(answer.content) IN
        /\ (Len(lines) = 4 /\ Stripped(lines[1]) # << >>) =>
                parsed = [question |-> Stripped(lines[1]),
                          answers |-> <<Stripped(lines[2]), Stripped(lines[3]),
                                        Stripped(lines[4])>>]
        /\ answer.content = ExampleText => parsed = ExamplePoll

\* C21 witness: the text of the example has been parsed.
ExampleParsed ==
    lastOp = "parse" /\ answer.content = ExampleText /\ parsed = ExamplePoll

\* C22: a text of four or more lines that are not blank gives the poll of
\* its first four, whatever follows them.
FirstFourLinesTaken ==
    (parsed # NoContent /\ ~throws(answer)) =>
        LET lines == UsableLinesOf(answer.content) IN
        (Len(lines) >= 4 /\ Stripped(lines[1]) # << >>) =>
            parsed = [question |-> Stripped(lines[1]),
                      answers |-> <<Stripped(lines[2]), Stripped(lines[3]),
                                    Stripped(lines[4])>>]

\* C23: the question and the three options of a returned poll are not
\* empty.
NoEmptyField ==
    parsed # NoContent =>
        /\ parsed.question # << >>
        /\ Len(parsed.answers) = 3
        /\ \A k \in 1 .. Len(parsed.answers) : parsed.answers[k] # << >>

\* The articles of the cards in the container, and the one displayed.
InView(c) == <<[i \in 1 .. Len(c.cards) |-> c.cards[i].art], c.visible>>

\* The replies that are failures: the request fails, the body is not what
\* is expected, or its text has fewer than 4 lines that are not blank.
FailedReplies == {reply \in ContentReplies : throws(reply)} \cup ShortReplies

\* C24: when a request for a poll fails, the batch, the index, the cards in
\* the container and its error block stay as they are, and the card the
\* poll was asked for shows the default poll.
PollFailureDegrades ==
    [][/\ (build = "app" /\ lastOp' = "navpoll") =>
            \A reply \in FailedReplies :
                AppNavPollResponse(reply) =>
                    /\ UNCHANGED <<articles, currentIndex>>
                    /\ InView(container') = InView(container)
                    /\ container'.error = container.error
                    /\ nav.card # 0 =>
                          /\ container'.cards[nav.card].poll.state = "shown"
                          /\ container'.cards[nav.card].poll.content = DefaultPoll
       /\ (build = "app" /\ lastOp' = "fetchpoll") =>
            \A reply \in FailedReplies, i \in 1 .. Len(fetches) :
                AppFetchPollResponse(i, reply) =>
                    /\ UNCHANGED <<articles, currentIndex>>
                    /\ InView(container') = InView(container)
                    /\ container'.error = container.error
                    /\ fetches[i].card # 0 =>
                          /\ container'.cards[fetches[i].card].poll.state = "shown"
                          /\ container'.cards[fetches[i].card].poll.content = DefaultPoll]_vars

\* C24 witness: the card on display has got the default poll, and there is
\* no error block.
DefaultPollInView ==
    /\ build = "app" /\ lastOp \in {"navpoll", "fetchpoll"}
    /\ container.error = "none" /\ container.visible # 0
    /\ container.cards[container.visible].poll.state = "shown"
    /\ container.cards[container.visible].poll.content = DefaultPoll
    /\ container.cards[container.visible].art = articles[currentIndex + 1].id

\* The characters a query parameter cannot hold unescaped.
Reserved == {":", "/", "?", "&", "=", "+", " "}

ImageArticle(url) == sample(1, SomeTitle, 31, url)

ProxyAlwaysResponds ==
    (request.route = "proxy-image" /\ request.pc \notin {"origin", "placeholder",
                                                         "placeholder-caught"}) =>
        /\ request.pc = "done"
        /\ response.status = 200
        /\ response.body \in {"original", "placeholder", "placeholder-error",
                             "fallback.svg"}

\* What NewsAPI's failures are answered with: status 500, no articles.
FailureAnswered ==
    \A r \in UpstreamResponses :
        (NewsUpstreamResponse(r) /\ (r.net # "ok" \/ r.status # "ok")) =>
            /\ response'.status = 500
            /\ response'.body # "ok"
            /\ response'.articles = << >>

\* C27 (as stated): the relay asks for the headlines exactly when q is
\* absent or is "top", and else asks the free-text endpoint for q (in
\* parentheses or not); a failure of NewsAPI is answered with status 500.
HeadlinesIffAbsentOrTop ==
    [][/\ \A q \in NewsQueries :
             GetNews(q) =>
                 /\ request'.mode = "top-headlines" <=> (~q.present \/ q.value = Top)
                 /\ request'.mode = "everything" =>
                        request'.query \in {q.value, <<"(">> \o q.value \o <<")">>}
       /\ FailureAnswered]_vars

\* C27: the relay asks for the headlines exactly when q is absent, empty or
\* "top", and else asks the free-text endpoint for q, in parentheses when q
\* contains "OR"; a failure of NewsAPI is answered with status 500 and no
\* articles, and a batch with status 200 and its valid articles.
HeadlinesIffNoQueryOrTop ==
    [][/\ \A q \in NewsQueries :
             GetNews(q) =>
                 /\ request'.mode = "top-headlines" <=>
                        (~q.present \/ q.value = NoString \/ q.value = Top)
                 /\ request'.mode \in {"top-headlines", "everything"}
                 /\ request'.mode = "everything" =>
                        request'.query = IF includes(q.value, <<"O", "R">>)
                                         THEN <<"(">> \o q.value \o <<")">> ELSE q.value
       /\ FailureAnswered
       /\ \A r \in UpstreamResponses :
             (NewsUpstreamResponse(r) /\ r.net = "ok" /\ r.status = "ok") =>
                 /\ response'.status = 200 /\ response'.body = "ok"
                 /\ response'.articles = serverFilter(r.articles)]_vars

\* C27 witness: a request with an empty q has asked for the headlines, and
\* NewsAPI's failure has been answered with status 500.
EmptyQueryAsksHeadlines ==
    /\ lastOp = "upstream" /\ request.route = "news"
    /\ request.q = Param(NoString) /\ request.mode = "top-headlines"
    /\ response.status = 500

\* C28: without a lastFetchTime the cache is stale at every instant, and the
\* page, when loaded, shows nothing of what cachedArticles may hold: it
\* asks for the news.
NoStampIsStale ==
    /\ [](storage.lastFetchTime = Absent =>
            \A now \in Instants, offset \in ZoneOffsets :
                shouldRefreshArticles(storage, now, offset))
    /\ [][(lastOp' = "load" /\ storage.lastFetchTime = Absent) =>
            /\ articles' = << >>
            /\ container'.cards = << >>
            /\ NewsPending(fetches') = NewsPending(fetches) + 1]_vars

\* C28 witness: the page has been loaded over a cache that holds a batch but
\* no time stamp, and has served nothing.
StampMissingAtLoad ==
    /\ lastOp = "load" /\ storage.lastFetchTime = Absent
    /\ storage.cachedArticles # NoText /\ Len(JSONparse(storage.cachedArticles)) > 0
    /\ articles = << >> /\ NewsPending(fetches) = 1

\* C29: no step but one that ends a fetch with a batch changes either key
\* of the cache: a failed fetch, a fetch of no article, next, prev and vote
\* leave both as they are.
CacheWrittenByFetchOnly ==
    [][/\ storage' # storage => (build = "script" /\ lastOp' = "shown")
       /\ lastOp' \in {"failed", "next", "prev", "vote"} =>
              /\ storage'.lastFetchTime = storage.lastFetchTime
              /\ storage'.cachedArticles = storage.cachedArticles]_vars

\* C29 witness: a fetch of the page with the cache has failed, and the cache
\* is as it was.
FailedFetchCachedNothing ==
    build = "script" /\ lastOp = "failed" /\ container.error # "none"
        /\ storage = EmptyStorage

\* The step starts one fetch of the headlines.
FetchStarted ==
    /\ Len(fetches') = Len(fetches) + 1
    /\ fetches'[Len(fetches')].kind = "top" /\ fetches'[Len(fetches')].pc = "news"
    /\ container' = showLoading

\* C30: when the timer of the daily check fires, a fetch is started if the
\* cache is stale at the instant of the firing and none is started if it is
\* not, and in both cases one timer of the check is pending afterwards.
CheckFetchesIffStale ==
    [][lastOp' = "dailycheck" =>
          /\ dailyTimers' = dailyTimers /\ dailyTimers' > 0
          /\ storage' = storage
          /\ \E t \in Instants, z \in ZoneOffsets :
                IF shouldRefreshArticles(storage, t, z)
                THEN FetchStarted
                ELSE fetches' = fetches /\ container' = container]_vars

\* C30 witness: the check has fired over a cache that was not stale: no
\* fetch is in flight and the next check is scheduled.
FreshCheckRearmed ==
    /\ lastOp = "dailycheck" /\ dailyTimers = 1
    /\ storage.lastFetchTime # Absent /\ fetches = << >>
    /\ \E t \in Instants, z \in ZoneOffsets : ~shouldRefreshArticles(storage, t, z)

\* C31: the timeout of setupDailyCheck is set for the next 00:05 UTC after
\* the instant "now" it was computed for: the delay is more than 0 and at
\* most 24 hours, it is 24 hours when now is 00:05:00.000 UTC and the rest
\* of the way to 00:05 when now is before it on the same day.
NextCheckAfterNow ==
    delay # NoDelay =>
        /\ delay > 0 /\ delay <= DayMs
        /\ (clock + delay) % DayMs = GraceMs
        /\ clock % DayMs = GraceMs => delay = DayMs
        /\ clock % DayMs < GraceMs => delay = GraceMs - (clock % DayMs)

\* C31 witness: the timeout ran at 00:05:00.000 UTC sharp, and the next one
\* is a day away.
CheckAtFiveSharp ==
    lastOp = "dailycheck" /\ clock % DayMs = GraceMs /\ delay = DayMs

\* C32: the flag isTransitioning is always released: once a call of
\* nextArticle or prevArticle has set it, and the requests of the page are
\* answered, it is false again at some later time.
FlagReleased == isTransitioning ~> ~isTransitioning

\* The page is at rest on a batch: nothing is loading or awaited, no error
\* is shown and there are articles.
Quiet ==
    /\ started /\ fetches = << >> /\ nav.pc = "idle" /\ timers = << >>
    /\ ~isTransitioning

\* The container holds cards only, one per article of the batch and in its
\* order, and only the one at index idx has the class "visible".
FirstCardsAre(batch, idx) ==
    LET ch == container.children IN
    /\ Len(ch) = Len(batch)
    /\ \A i \in 1 .. Len(ch) :
          /\ ch[i].kind = "card" /\ ch[i].art = batch[i].id
          /\ ch[i].visible <=> (i = idx + 1)

\* The same of the build that renders the card of the current article only,
\* and of the build that renders all cards at once.
CardsAre(batch, idx) ==
    /\ idx + 1 \in 1 .. Len(batch)
    /\ container.visible \in 1 .. Len(container.cards)
    /\ container.cards[container.visible].art = batch[idx + 1].id
    /\ IF build = "app" THEN Len(container.cards) = 1
       ELSE /\ Len(container.cards) = Len(batch)
            /\ \A i \in 1 .. Len(batch) : container.cards[i].art = batch[i].id

\* The container shows neither the loading block nor an error block.
ShowsCards ==
    IF build = "part_001"
    THEN \A i \in 1 .. Len(container.children) : container.children[i].kind = "card"
    ELSE ~container.loading /\ container.error = "none"

\* C33: whenever the page is Ready and nothing is pending, the cards in the
\* container are those of the current batch (the one card of the current
\* article in the build that renders one card at a time), no card of a
\* batch that was replaced is among them, and the card on screen is the one
\* of articles[currentIndex].
CardsAreCurrentBatch ==
    (Quiet /\ ShowsCards /\ Len(articles) > 0) =>
        IF build = "part_001" THEN FirstCardsAre(articles, currentIndex)
        ELSE CardsAre(articles, currentIndex)

\* The build of app.js 515-1092 by itself.
AppCardIsCurrent == build = "app" => CardsAreCurrentBatch

\* The step is the arrival of the response of the i-th request in flight.
Answered(i) ==
    /\ i \in 1 .. Len(fetches) /\ fetches[i].pc = "news"
    /\ lastOp' \in {"shown", "failed"}
    /\ IF Len(fetches') = Len(fetches) THEN fetches'[i].pc = "poll"
       ELSE fetches' = fetchFailed(fetches, i)

\* C34: of two fetch actions that overlap, the one requested last decides
\* the batch held and displayed in the end, whatever the order of the
\* responses: once the response of the later one has been taken, the
\* response of the earlier one changes neither the batch nor the cards.
LatestRequestWins ==
    [][\A i \in 1 .. MaxInFlight :
          (/\ build = "app" /\ Answered(i)
           /\ \E j \in (i + 1) .. Len(fetches) : fetches[j].pc = "poll") =>
              /\ articles' = articles
              /\ container'.cards = container.cards]_vars

\* C35: while the container shows the error block of a failed fetch, next,
\* prev and vote change neither the index nor the container: the error block
\* stays, and no card of the batch loaded before is rendered.
ErrorLeftByFetchOnly ==
    [][(/\ build = "app" /\ container.error # "none"
        /\ lastOp' \in {"next", "prev", "vote"}) =>
           /\ currentIndex' = currentIndex
           /\ container' = container]_vars

\* C36: whenever nothing is pending, the buttons agree with the index: prev
\* is disabled iff currentIndex <= 0 and next iff currentIndex >=
\* articles.length - 1.
ButtonsAgreeWithIndex ==
    (Quiet /\ build = "app") =>
        /\ prevDisabled <=> (currentIndex <= 0)
        /\ nextDisabled <=> (currentIndex >= Len(articles) - 1)

\* A failed fetch after a category click has left the buttons as a
\* navigation to the last article set them, with the index back at 0.
ButtonsOfLastIndex ==
    /\ Quiet /\ build = "app" /\ lastOp = "failed"
    /\ Len(articles) = 2 /\ currentIndex = 0
    /\ ~prevDisabled /\ nextDisabled

\* C37: the hook of an image element sets its source at most once: a
\* fallback asset that fails to load is not loaded again.
FallbackOneShot == image.swaps <= 1

\* The element of the build of app.js by itself: one swap at most.
AppFallbackOneShot == build = "app" => FallbackOneShot

\* The line starts with a label of the prefix pattern followed by ":" or
\* ".".
HasLabel(line) ==
    \E k \in 1 .. Len(Prefixes) :
        /\ startsWithIgnoreCase(line, Prefixes[k])
        /\ Len(line) > Len(Prefixes[k])
        /\ line[Len(Prefixes[k]) + 1] \in {":", "."}

\* The line carries no such label, no enumeration marker and no dash at its
\* start.
Plain(line) ==
    /\ line # << >> /\ ~HasLabel(line)
    /\ Head(line) \notin Digits /\ Head(line) # "-"

\* C38: stripping removes prefixes only: a line of a parsed text that has no
\* label followed by ":" or ".", no enumeration marker and no leading dash
\* is the question or the option of the poll as it stands, trimmed.
PlainLinesKept ==
    (parsed # NoContent /\ ~throws(answer)) =>
        LET lines == map(trim, UsableLinesOf(answer.content)) IN
        (Len(lines) = 4 /\ parsed # DefaultPoll) =>
            \A k \in 1 .. 4 :
                Plain(lines[k]) =>
                    lines[k] = IF k = 1 THEN parsed.question ELSE parsed.answers[k - 1]

====
